---- MODULE Spec2Model ----
(***************************************************************************)
(* A model of mal-id-cache: the self-extending page range (jobs.py), the   *)
(* deduplicating caches and their process_job cycle under the shared lock  *)
(* `requesting` (cache.py), and the schedulers' timers (scheduler.py).     *)
(***************************************************************************)
EXTENDS Integers, Sequences, FiniteSets, TLC

(***************************************************************************)
(* Bounds of the model.                                                    *)
(***************************************************************************)
\* pages an unbounded range may produce in the model (guards of the next-steps)
MaxPage == 6
\* largest finite check_till an UpdatableRange is constructed with
MaxInitTill == 5
\* the clock runs from tick 0 to tick MaxTick
MaxTick == 3
\* clock ticks per second: time.time() is a float, int(time.time()) drops the fraction
TicksPerSec == 2
\* a scheduler is configured with at most MaxBudgets page budgets
MaxBudgets == 3
\* the ids the remote catalog hands out are 1 .. MaxId
MaxId == 2
\* a page (or letter) listing holds at most MaxPerPage ids
MaxPerPage == 2
\* direct calls of add made by a caller in SpecAdd
MaxAdds == 4
\* the last calls on a cacher that SpecFile remembers
MaxRemembered == 2
\* the largest page count a caller passes to Job
MaxPageArg == 20
\* the instants SpecView observes: up to MaxWaits idle TTLs and MaxChecks decay
\* check periods after the start
MaxWaits == 1
MaxChecks == 1
\* ids the cachers approve while SpecView runs
MaxApproved == 2
\* the feed of SpecOnce has no entries past page MaxOncePage
MaxOncePage == 11
\* the clock of SpecOnce runs MaxOnceTicks ticks
MaxOnceTicks == 3
\* the Jobs the caller of SpecOnce processes
MaxOnceJobs == 1
\* the longest request string a caller sends
MaxRequestLen == 3
\* the tasks of the event loop next to the decay task
NumOthers == 2
\* concurrent callers of process_job
NumTasks == 2
\* the largest positive page count a Job is built with
MaxJobPages == 2
\* the remote feed has no entries past page MaxFeedPage
MaxFeedPage == 2
\* the lowercase letter endpoints kept of the 26 (with "." always kept)
NumLetters == 2

(***************************************************************************)
(* Program constants.                                                      *)
(***************************************************************************)
\* UpdatableRange.__init__: extend_by: int = 8
DefaultExtendBy == 8
\* backoff.on_exception(..., max_tries=10) of both _request methods
max_tries == 10
\* Unapproved.DECAY_CHECK_TIME and Unapproved.DECAY_WAIT_TIME (seconds)
DECAY_CHECK_TIME == 60
DECAY_WAIT_TIME == 3600
\* RequestType
ANIME == 1
MANGA == 2
CHARACTER == 3
PERSON == 4
RequestTypes == {ANIME, MANGA, CHARACTER, PERSON}

(***************************************************************************)
(* jobs.py: UpdatableRange                                                 *)
(***************************************************************************)
\* UpdatableRange.__init__
UpdatableRange(check_till, extend_by) ==
    [ current_page |-> 0,
      check_till |-> check_till,
      extend_by |-> extend_by,
      infinite |-> (check_till = -1),
      is_toggleable |-> (check_till = -2),
      _is_toggled |-> TRUE ]

\* a slip in found_entry_on_page: the ceiling is assigned without comparing
Mut_found_entry_assigns(r, n) ==
    IF ~r.infinite THEN [r EXCEPT !.check_till = n + r.extend_by] ELSE r

\* a slip in found_entry_on_page: the infinite range is extended like a finite one
Mut_found_entry_ignores_infinite(r, n) ==
    IF n + r.extend_by > r.check_till
    THEN [r EXCEPT !.check_till = n + r.extend_by]
    ELSE r

\* a slip in found_entry_on_page: the ceiling is never raised
Mut_found_entry_never_extends(r, n) == r

\* UpdatableRange.found_entry_on_page
found_entry_on_page(r, n) ==
    IF ~r.infinite
    THEN LET extend_till == n + r.extend_by
         IN  IF extend_till > r.check_till
             THEN [r EXCEPT !.check_till = extend_till]
             ELSE r
    ELSE r

\* UpdatableRange.toggle_off
toggle_off(r) == [r EXCEPT !._is_toggled = FALSE]

\* a slip in __next__: an off-by-one in the comparison with the ceiling
Mut_next_off_by_one(r) ==
    IF r.infinite \/ (r.is_toggleable /\ r._is_toggled) \/ r.current_page <= r.check_till
    THEN [range |-> [r EXCEPT !.current_page = r.current_page + 1],
          value |-> r.current_page + 1, stop |-> FALSE]
    ELSE [range |-> r, value |-> 0, stop |-> TRUE]

\* a slip in __next__: the page counter advances by two
Mut_next_skips_a_page(r) ==
    IF r.infinite \/ (r.is_toggleable /\ r._is_toggled) \/ r.current_page < r.check_till
    THEN [range |-> [r EXCEPT !.current_page = r.current_page + 2],
          value |-> r.current_page + 2, stop |-> FALSE]
    ELSE [range |-> r, value |-> 0, stop |-> TRUE]

\* UpdatableRange.__next__: the range after the call, the value returned, and
\* whether StopIteration was raised instead
__next__(r) ==
    IF r.infinite \/ (r.is_toggleable /\ r._is_toggled) \/ r.current_page < r.check_till
    THEN [range |-> [r EXCEPT !.current_page = r.current_page + 1],
          value |-> r.current_page + 1, stop |-> FALSE]
    ELSE [range |-> r, value |-> 0, stop |-> TRUE]

(***************************************************************************)
(* utils.py: the keys of a persisted dictionary.  A string is modelled as  *)
(* the sequence of its characters.                                         *)
(***************************************************************************)
Digits == <<"0", "1", "2", "3", "4", "5", "6", "7", "8", "9">>

RECURSIVE NatToStr(_)
NatToStr(n) ==
    IF n < 10 THEN <<Digits[n + 1]>>
    ELSE NatToStr(n \div 10) \o <<Digits[(n % 10) + 1]>>

\* Python's str() of an int
PyStr(k) == IF k < 0 THEN <<"-">> \o NatToStr(-k) ELSE NatToStr(k)

DigitVal(c) == CHOOSE d \in 0 .. 9 : Digits[d + 1] = c

RECURSIVE StrToNat(_)
StrToNat(s) ==
    IF Len(s) = 0 THEN 0
    ELSE StrToNat(SubSeq(s, 1, Len(s) - 1)) * 10 + DigitVal(s[Len(s)])

\* Python's int() of a decimal string
PyInt(s) == IF s[1] = "-" THEN -StrToNat(Tail(s)) ELSE StrToNat(s)

\* utils.load_dictionary: {int(k): v for k, v in d.items()}
load_dictionary(d) ==
    [k \in {PyInt(ks) : ks \in DOMAIN d} |->
        d[CHOOSE ks \in DOMAIN d : PyInt(ks) = k]]

\* a slip in dump_dictionary: the sign of a key is lost
Mut_dump_dictionary_drops_sign(st) ==
    [ks \in {NatToStr(IF st[i].pages < 0 THEN -st[i].pages ELSE st[i].pages) :
                i \in 1 .. Len(st)} |->
        LET i == CHOOSE j \in 1 .. Len(st) :
                    NatToStr(IF st[j].pages < 0 THEN -st[j].pages ELSE st[j].pages) = ks
        IN  [every_x_seconds |-> st[i].every_x_seconds, prev |-> st[i].prev]]

\* utils.dump_dictionary: {str(k): v for k, v in d.items()}, applied to the
\* scheduler's state, an insertion-ordered dict modelled as a sequence of
\* entries [pages, every_x_seconds, prev]
dump_dictionary(st) ==
    [ks \in {PyStr(st[i].pages) : i \in 1 .. Len(st)} |->
        LET i == CHOOSE j \in 1 .. Len(st) : PyStr(st[j].pages) = ks
        IN  [every_x_seconds |-> st[i].every_x_seconds, prev |-> st[i].prev]]

(***************************************************************************)
(* scheduler.py                                                            *)
(***************************************************************************)
\* int(time.time()) at clock tick t
IntTime(t) == t \div TicksPerSec

\* time.time() - metadata["prev"] > metadata["every_x_seconds"] at clock tick t
IsDue(entry, t) == t - entry.prev * TicksPerSec > entry.every_x_seconds * TicksPerSec

\* a state file that does not exist, and one that does not hold JSON
AbsentFile == [exists |-> FALSE, valid |-> FALSE, data |-> << >>]
CorruptFile == [exists |-> TRUE, valid |-> FALSE, data |-> << >>]

\* a slip in read_state: a budget the file lacks starts with its period as
\* its last-checked stamp
Mut_read_state_copies_period(rs, file) ==
    LET contents == IF file.exists /\ file.valid
                    THEN load_dictionary(file.data)
                    ELSE << >>
    IN  [i \in 1 .. Len(rs) |->
            [ pages |-> rs[i].pages,
              every_x_seconds |-> rs[i].period,
              prev |-> IF rs[i].pages \in DOMAIN contents
                       THEN contents[rs[i].pages].prev
                       ELSE rs[i].period ]]

\* AbstractScheduler.read_state: self.state after the call, given the config
\* `rs` (a sequence of [pages, period]) and the state file
read_state(rs, file) ==
    LET contents == IF file.exists /\ file.valid
                    THEN load_dictionary(file.data)
                    ELSE << >>
    IN  [i \in 1 .. Len(rs) |->
            [ pages |-> rs[i].pages,
              every_x_seconds |-> rs[i].period,
              prev |-> IF rs[i].pages \in DOMAIN contents
                       THEN contents[rs[i].pages].prev
                       ELSE 0 ]]

\* AbstractScheduler.dump_state: the state file after the call
dump_state(st, file, dry) ==
    IF dry THEN file
    ELSE [exists |-> TRUE, valid |-> TRUE, data |-> dump_dictionary(st)]

\* a slip in the scan of prepare_request: the smallest due budget is kept
RECURSIVE Mut_scan_keeps_smallest(_, _, _, _)
Mut_scan_keeps_smallest(st, i, max_pages, t) ==
    IF i > Len(st) THEN max_pages
    ELSE IF IsDue(st[i], t)
         THEN IF st[i].pages < 0 THEN st[i].pages
              ELSE IF max_pages = 0 \/ st[i].pages < max_pages
                   THEN Mut_scan_keeps_smallest(st, i + 1, st[i].pages, t)
                   ELSE Mut_scan_keeps_smallest(st, i + 1, max_pages, t)
         ELSE Mut_scan_keeps_smallest(st, i + 1, max_pages, t)

\* JustAddedScheduler.prepare_request, the loop over self.state.items() from
\* entry i on: the value of max_pages when the loop ends
RECURSIVE scan_due(_, _, _, _)
scan_due(st, i, max_pages, t) ==
    IF i > Len(st) THEN max_pages
    ELSE IF IsDue(st[i], t)
         THEN IF st[i].pages < 0 THEN st[i].pages          \* break
              ELSE IF st[i].pages > max_pages
                   THEN scan_due(st, i + 1, st[i].pages, t)
                   ELSE scan_due(st, i + 1, max_pages, t)
         ELSE scan_due(st, i + 1, max_pages, t)

\* JustAddedScheduler.prepare_request, given self.state as read: the pages of
\* the Job returned, 0 standing for None
prepare_request_pages(st, t) == scan_due(st, 1, 0, t)

\* a slip in finished_requesting: the comparison with the budget is turned round
Mut_finished_compares_backwards(st, r, t) ==
    [i \in 1 .. Len(st) |->
        IF r.infinite THEN [st[i] EXCEPT !.prev = IntTime(t)]
        ELSE IF r.current_page <= st[i].pages /\ st[i].pages # -1
             THEN [st[i] EXCEPT !.prev = IntTime(t)]
             ELSE st[i]]

\* a slip in finished_requesting: the all-pages budget is never stamped
Mut_finished_skips_all_pages(st, r, t) ==
    [i \in 1 .. Len(st) |->
        IF st[i].pages # -1 /\ (r.infinite \/ r.current_page >= st[i].pages)
        THEN [st[i] EXCEPT !.prev = IntTime(t)]
        ELSE st[i]]

\* JustAddedScheduler.finished_requesting: self.state after the loop
finished_requesting(st, r, t) ==
    [i \in 1 .. Len(st) |->
        IF r.infinite THEN [st[i] EXCEPT !.prev = IntTime(t)]
        ELSE IF r.current_page >= st[i].pages /\ st[i].pages # -1
             THEN [st[i] EXCEPT !.prev = IntTime(t)]
             ELSE st[i]]


\* the entry of the state dict st under the key `pages`
HasKey(st, pages) == \E i \in 1 .. Len(st) : st[i].pages = pages
Entry(st, pages) == st[CHOOSE i \in 1 .. Len(st) : st[i].pages = pages]

\* a slip in AllPagesScheduler.prepare_request: due as soon as the period is
\* reached
Mut_all_pages_due_at_equal(st, t) ==
    IF t - Entry(st, -1).prev * TicksPerSec >= Entry(st, -1).every_x_seconds * TicksPerSec
    THEN -1
    ELSE 0

\* AllPagesScheduler.prepare_request, given self.state as read (with the key
\* -1): the pages of the Job returned, 0 standing for None
all_pages_prepare_request(st, t) ==
    IF t - Entry(st, -1).prev * TicksPerSec > Entry(st, -1).every_x_seconds * TicksPerSec
    THEN -1
    ELSE 0

(***************************************************************************)
(* jobs.py: Job                                                            *)
(***************************************************************************)
\* Job.__init__: self.pages (character and person requests only accept -1)
JobPagesOf(request_type, pages) ==
    IF request_type \in {ANIME, MANGA} THEN pages ELSE -1

(***************************************************************************)
(* cache.py: the caches                                                    *)
(***************************************************************************)
Ids == 1 .. MaxId

\* the id lists a page or letter request may return
PageResults == UNION { [1 .. n -> Ids] : n \in 0 .. MaxPerPage }

\* JustAddedCache._set_default_cache / AllPagesCache._set_default_cache
JustAddedDefaultCache == [sfw |-> {}, nsfw |-> {}]
AllPagesDefaultCache == [ids |-> {}]

IsJustAdded(rt) == rt \in {ANIME, MANGA}

\* JustAddedCache.__contains__
JustAddedContains(c, item) == item \in c.sfw \/ item \in c.nsfw

\* a slip in JustAddedCache.add: only the set being added to is looked at
Mut_add_checks_own_set(c, item, nsfw) ==
    IF (IF nsfw THEN item \in c.nsfw ELSE item \in c.sfw)
    THEN [cache |-> c, ret |-> FALSE]
    ELSE [cache |-> IF nsfw THEN [c EXCEPT !.nsfw = @ \cup {item}]
                    ELSE [c EXCEPT !.sfw = @ \cup {item}],
          ret |-> TRUE]

\* a slip in JustAddedCache.add: the result is the wrong way round
Mut_add_returns_membership(c, item, nsfw) ==
    IF JustAddedContains(c, item)
    THEN [cache |-> c, ret |-> TRUE]
    ELSE [cache |-> IF nsfw THEN [c EXCEPT !.nsfw = @ \cup {item}]
                    ELSE [c EXCEPT !.sfw = @ \cup {item}],
          ret |-> FALSE]

\* JustAddedCache.add: the cache after the call and the value returned
JustAddedAdd(c, item, nsfw) ==
    IF JustAddedContains(c, item)
    THEN [cache |-> c, ret |-> FALSE]
    ELSE [cache |-> IF nsfw THEN [c EXCEPT !.nsfw = @ \cup {item}]
                    ELSE [c EXCEPT !.sfw = @ \cup {item}],
          ret |-> TRUE]

\* Python's == between a cached id (an int) and the class object `int`
EqualsClassInt(x) == FALSE

\* AllPagesCache.__contains__: `int in self.cache["ids"]` looks for the class
\* object int among the cached ids; the item asked about is not used
AllPagesContains(c, item) == \E x \in c.ids : EqualsClassInt(x)

\* AllPagesCache.add: the cache after the call and the value returned
AllPagesAdd(c, item) ==
    IF AllPagesContains(c, item)
    THEN [cache |-> c, ret |-> FALSE]
    ELSE [cache |-> [c EXCEPT !.ids = @ \cup {item}], ret |-> TRUE]

\* JustAddedCache._process_job_type, the loop `for item in ids` from item i on:
\* the cache and the range after it
RECURSIVE JustAddedAddAll(_, _, _, _, _, _)
JustAddedAddAll(c, r, ids, i, page, nsfw) ==
    IF i > Len(ids) THEN [cache |-> c, range |-> r]
    ELSE LET a == JustAddedAdd(c, ids[i], nsfw)
         IN  JustAddedAddAll(a.cache,
                             IF a.ret THEN found_entry_on_page(r, page) ELSE r,
                             ids, i + 1, page, nsfw)

\* AllPagesCache.process_job, the loop `for item in ids` from item i on
RECURSIVE AllPagesAddAll(_, _, _)
AllPagesAddAll(c, ids, i) ==
    IF i > Len(ids) THEN c
    ELSE AllPagesAddAll(AllPagesAdd(c, ids[i]).cache, ids, i + 1)

\* Job(request_type, pages): the Job built, or the RuntimeError raised for a
\* request type that is none of the four
NewJob(request_type, pages) ==
    IF request_type \in {ANIME, MANGA, CHARACTER, PERSON}
    THEN [asked_type |-> request_type, asked_pages |-> pages, raised |-> FALSE,
          request_type |-> request_type, pages |-> JobPagesOf(request_type, pages)]
    ELSE [asked_type |-> request_type, asked_pages |-> pages, raised |-> TRUE,
          request_type |-> 0, pages |-> 0]

\* sorted(s) of a set of ints
RECURSIVE sorted(_)
sorted(S) ==
    IF S = {} THEN << >>
    ELSE LET m == CHOOSE x \in S : \A y \in S : x <= y
         IN  <<m>> \o sorted(S \ {m})

\* a slip in dump: the arrays are written largest first
Mut_dump_descending(c, file, dry) ==
    IF dry THEN file
    ELSE [exists |-> TRUE, valid |-> TRUE,
          data |-> [k \in DOMAIN c |->
                      [i \in 1 .. Len(sorted(c[k])) |->
                          sorted(c[k])[Len(sorted(c[k])) + 1 - i]]]]

\* AbstractCache.dump: the cache file after the call
dump(c, file, dry) ==
    IF dry THEN file
    ELSE [exists |-> TRUE, valid |-> TRUE,
          data |-> [k \in DOMAIN c |-> sorted(c[k])]]

\* _set_default_cache of the cacher of request type rt
DefaultCacheOf(rt) ==
    IF IsJustAdded(rt) THEN JustAddedDefaultCache ELSE AllPagesDefaultCache

\* AbstractCache.__init__: self.cache = {}
EmptyDict == << >>

\* a slip in read: a file that is not JSON leaves the cache as it was built
Mut_read_ignores_corrupt(file, rt) ==
    IF file.exists
    THEN IF file.valid
         THEN [k \in DOMAIN file.data |->
                  { file.data[k][i] : i \in 1 .. Len(file.data[k]) }]
         ELSE EmptyDict
    ELSE DefaultCacheOf(rt)

\* AbstractCache.read: self.cache after the call (a missing file raises
\* FileNotFoundError, a file that is not JSON JSONDecodeError; both are caught)
read(file, rt) ==
    IF file.exists /\ file.valid
    THEN [k \in DOMAIN file.data |->
             { file.data[k][i] : i \in 1 .. Len(file.data[k]) }]
    ELSE DefaultCacheOf(rt)

\* a slip in process_job: the third is rounded down
Mut_floor_third(n) == n \div 3

\* math.ceil(nsfw_pages / 3) for a positive page count
CeilThird(n) == (n + 2) \div 3

\* JustAddedCache.process_job: the pages the NSFW pass starts with
NsfwPages(pages) == IF pages > 0 THEN CeilThird(pages) ELSE pages

\* AllPagesCache.LETTER_ENDPOINTS = "." + string.ascii_lowercase, cut down to
\* its first NumLetters letters
ascii_lowercase == <<"a", "b", "c", "d", "e", "f", "g", "h", "i", "j", "k", "l", "m",
                     "n", "o", "p", "q", "r", "s", "t", "u", "v", "w", "x", "y", "z">>
LETTER_ENDPOINTS == {"."} \cup { ascii_lowercase[i] : i \in 1 .. NumLetters }

\* asyncio.Lock.acquire returns at once when the lock is free and nobody waits
Mut_acquire_ignores_lock(lock) == TRUE

CanAcquire(lock) == lock.holder = 0 /\ lock.waiters = << >>

(***************************************************************************)
(* State.                                                                  *)
(***************************************************************************)
VARIABLES
    rng,        \* an UpdatableRange object driven directly by a caller
    rngHist,    \* what the caller has observed of rng
    dry_run,    \* the --dry-run flag every scheduler and cache is built with
    now,        \* the wall clock, in ticks
    ranges,     \* AbstractScheduler.ranges of each scheduler (the configuration)
    state,      \* AbstractScheduler.state of each scheduler
    stateFile,  \* the <endpoint>_state.json file of each scheduler
    schedHist,  \* the call made on a scheduler by the last step, what it returned
    cache,      \* AbstractCache.cache of each cacher
    cacheFile,  \* the <endpoint>_cache.json file of each cacher
    addLog,     \* the direct calls made on the cachers and what they returned
    requesting, \* the module-level asyncio.Lock of cache.py
    tasks,      \* the coroutines running process_job
    jobHist,    \* whether the last step was a response with an id known already
    finishedAt, \* when a full-enumeration finished_requesting last returned
    view,       \* the Unapproved object
    remote,     \* the anime and manga tables of the remote relation-id page
    viewHist,   \* the caller of the Unapproved object: its call and what it saw
    made,       \* the Job a caller constructed last, or the error it got
    driver,     \* run.once: where it stands, the schedulers it has consulted, the
                \* Jobs they returned and the Jobs processed
    shut,       \* graceful_shutdown: where it stands, and the tasks of the loop
    onceHist    \* the caller that runs one Job at a time: its Job, the attempts
                \* of the request in flight, and what it has seen of the Job

rangeVars == <<rng, rngHist>>
schedVars == <<dry_run, now, ranges, state, stateFile, schedHist>>
cacheVars == <<cache, cacheFile, addLog>>
jobVars == <<requesting, tasks, jobHist>>
timerVars == <<finishedAt>>
viewVars == <<view, remote, viewHist>>
ctorVars == <<made, driver, shut>>
onceVars == <<onceHist>>
vars == <<rng, rngHist, dry_run, now, ranges, state, stateFile, schedHist,
          cache, cacheFile, addLog, requesting, tasks, jobHist, finishedAt,
          view, remote, viewHist, made, driver, shut, onceHist>>

(***************************************************************************)
(* Values the variables start with where a specification does not use them *)
(***************************************************************************)
\* the last call made on rng: before any call
NoCall == [op |-> "init", n |-> 0, pre |-> UpdatableRange(0, DefaultExtendBy),
           value |-> 0, stop |-> FALSE]

RangeIdle ==
    /\ rng = UpdatableRange(0, DefaultExtendBy)
    /\ rngHist = [ init_till |-> 0, produced |-> << >>, found_called |-> FALSE,
                   toggled_off |-> FALSE, next_after_toggle |-> FALSE,
                   last |-> NoCall ]

\* no scheduler call was made yet
NoSchedCall == [op |-> "init", rt |-> 0, ret |-> 0, pre |-> << >>, at |-> 0,
                r_infinite |-> FALSE, r_current_page |-> 0]

\* the configuration of the schedulers a specification does not vary
DefaultRanges ==
    [rt \in RequestTypes |->
        IF rt \in {ANIME, MANGA}
        THEN << [pages |-> -1, period |-> 1], [pages |-> 2, period |-> 0] >>
        ELSE << [pages |-> -1, period |-> 1] >>]

SchedIdle ==
    /\ dry_run = FALSE
    /\ now = 0
    /\ ranges = DefaultRanges
    /\ state = [rt \in RequestTypes |-> << >>]
    /\ stateFile = [rt \in RequestTypes |-> AbsentFile]
    /\ schedHist = NoSchedCall

Tasks == 1 .. NumTasks

\* a range no pass has built yet
NoRange == UpdatableRange(0, DefaultExtendBy)

\* a coroutine that was not started yet
IdleTask == [pc |-> "idle", rt |-> 0, pages |-> 0, pass |-> "none", r |-> NoRange,
             updatable |-> NoRange, letters |-> {}, letter |-> ""]

\* the last step was no response holding an id that the cache already held
\* under the other classification
NoEvent == [ev |-> "none", t |-> 0, rt |-> 0, nsfw |-> FALSE]

\* AbstractCache.read of a missing cache file: the default cache
CacheIdle ==
    /\ cache = [rt \in RequestTypes |->
                  IF IsJustAdded(rt) THEN JustAddedDefaultCache ELSE AllPagesDefaultCache]
    /\ cacheFile = [rt \in RequestTypes |-> AbsentFile]
    /\ addLog = << >>

JobIdle ==
    /\ requesting = [holder |-> 0, waiters |-> << >>]
    /\ tasks = [t \in Tasks |-> IdleTask]
    /\ jobHist = NoEvent

\* no full-enumeration finished_requesting has returned yet
TimerIdle == finishedAt = -1

\* the caller of SpecOnce before its first Job
NoOnce ==
    [ phase |-> "none", jobs |-> 0, rt |-> 0, pages |-> 0, from_prepare |-> FALSE,
      tries |-> 0, err |-> "none", writes |-> 0, state_writes |-> 0,
      empty_pass |-> "none", found2 |-> FALSE, asked |-> << >>, got |-> {},
      dot404 |-> FALSE,
      sfw_end |-> [cp |-> 0, till |-> 0, empty |-> FALSE],
      pre |-> [cacheFile |-> AbsentFile, stateFile |-> AbsentFile, state |-> << >>,
               cache |-> << >>],
      at |-> 0 ]

OnceIdle == onceHist = NoOnce

\* no Job was constructed yet
NoJob == [asked_type |-> 0, asked_pages |-> 0, raised |-> FALSE,
          request_type |-> 0, pages |-> 0, request_str |-> << >>, error |-> "none"]

\* once() was not called
NoDriver == [pc |-> "idle", i |-> 0, consulted |-> << >>, jobs |-> << >>,
             completed |-> << >>, raised |-> "none"]

\* no event loop runs
NoShutdown == [pc |-> "none", py |-> "none", instance |-> FALSE, decay |-> "none",
               others |-> << >>, asked |-> << >>, handled |-> << >>,
               raised |-> "none", stopped |-> FALSE]

CtorIdle ==
    /\ made = NoJob
    /\ driver = NoDriver
    /\ shut = NoShutdown

\* Python's None, and a value that is not None
None == [some |-> FALSE, val |-> << >>]
Some(x) == [some |-> TRUE, val |-> x]

\* Unapproved.__init__
NewUnapproved ==
    [ _html_response |-> "none", _html_text |-> None, _anime |-> None,
      _manga |-> None, _requested_at |-> None ]

\* no call was made on the Unapproved object yet
NoViewCall == [kind |-> "none", result |-> << >>, started |-> 0, at |-> 0,
               fetched |-> FALSE, after_decay |-> FALSE,
               approved |-> << >>, table |-> << >>]

\* the relation-id page before anything was fetched from it
NoTables == [tables |-> 2, anime |-> << >>, manga |-> << >>]

\* the caller of the Unapproved object before its first call
NoViewCaller ==
    [ pc |-> "idle", kind |-> "none", started |-> 0, fetched |-> FALSE,
      decayed |-> FALSE, after_decay |-> FALSE, table |-> NoTables,
      last |-> NoViewCall, prev |-> NoViewCall ]

ViewIdle ==
    /\ view = NewUnapproved
    /\ remote = NoTables
    /\ viewHist = NoViewCaller

(***************************************************************************)
(* SpecRange: an UpdatableRange under an arbitrary caller.                 *)
(***************************************************************************)
\* the check_till values a range is constructed with
InitTills == {-2, -1} \cup (0 .. MaxInitTill)

RangeInit ==
    /\ SchedIdle
    /\ CacheIdle
    /\ JobIdle
    /\ TimerIdle
    /\ OnceIdle
    /\ CtorIdle
    /\ ViewIdle
    /\ \E t \in InitTills, e \in {DefaultExtendBy, 2} :
          /\ rng = UpdatableRange(t, e)
          /\ rngHist = [ init_till |-> t,
                         produced |-> << >>,
                         found_called |-> FALSE,
                         toggled_off |-> FALSE,
                         next_after_toggle |-> FALSE,
                         last |-> [NoCall EXCEPT !.pre = UpdatableRange(t, e)] ]

\* a caller calls found_entry_on_page(n)
RangeFound(n) ==
    /\ rng' = found_entry_on_page(rng, n)
    /\ rngHist' = [rngHist EXCEPT
                     !.found_called = TRUE,
                     !.next_after_toggle = FALSE,
                     !.last = [op |-> "found", n |-> n, pre |-> rng,
                               value |-> 0, stop |-> FALSE]]

\* a caller calls toggle_off()
RangeToggleOff ==
    /\ rng' = toggle_off(rng)
    /\ rngHist' = [rngHist EXCEPT
                     !.toggled_off = TRUE,
                     !.next_after_toggle = FALSE,
                     !.last = [op |-> "toggle_off", n |-> 0, pre |-> rng,
                               value |-> 0, stop |-> FALSE]]

\* a caller calls next(); the model stops calling once MaxPage pages were produced
RangeNext ==
    /\ rng.current_page < MaxPage
    /\ LET res == __next__(rng)
       IN  /\ rng' = res.range
           /\ rngHist' = [rngHist EXCEPT
                            !.produced = IF res.stop THEN @ ELSE Append(@, res.value),
                            !.next_after_toggle = (rngHist.last.op = "toggle_off"),
                            !.last = [op |-> "next", n |-> 0, pre |-> rng,
                                      value |-> res.value, stop |-> res.stop]]

RangeStep ==
    \/ \E n \in 0 .. MaxPage : RangeFound(n) /\ UNCHANGED <<onceVars, schedVars, cacheVars, jobVars, timerVars, viewVars, ctorVars>>
    \/ RangeToggleOff /\ UNCHANGED <<onceVars, schedVars, cacheVars, jobVars, timerVars, viewVars, ctorVars>>
    \/ RangeNext /\ UNCHANGED <<onceVars, schedVars, cacheVars, jobVars, timerVars, viewVars, ctorVars>>

SpecRange == RangeInit /\ [][RangeStep]_vars

(***************************************************************************)
(* SpecSched: the recent-feed scheduler of ANIME under an arbitrary        *)
(* caller, configuration, state file and clock.                            *)
(***************************************************************************)
\* the page budgets a recent-feed scheduler is configured with: all pages
\* (-1) and positive page counts
Budgets == {-1, 2, 8, 20}
\* the periods (seconds) a budget is configured with
Periods == {0, 1}

\* the configurations: up to MaxBudgets distinct budgets, in any order, checked
\* every `period` seconds
SchedConfigs ==
    { [i \in DOMAIN b |-> [pages |-> b[i], period |-> period]] :
        b \in { c \in UNION { [1 .. n -> Budgets] : n \in 1 .. MaxBudgets } :
                  \A i, j \in DOMAIN c : i # j => c[i] # c[j] },
        period \in Periods }

\* the state files a scheduler may find at start: none, an unparsable one, and
\* files written by dump_state for the configuration or for all of it but its
\* first budget, with any second of the clock as a budget's last-checked stamp
InitFiles(c) ==
    {AbsentFile, CorruptFile} \cup
    { [exists |-> TRUE, valid |-> TRUE, data |-> dump_dictionary(st)] :
        st \in UNION { { [i \in 1 .. Len(c) - k |->
                            [ pages |-> c[i + k].pages,
                              every_x_seconds |-> c[i + k].period,
                              prev |-> p[i + k] ]] :
                         p \in [1 .. Len(c) -> 0 .. IntTime(MaxTick)] } : k \in {0, 1} } }

\* current_page of the range a finished pass reports
CurPages == {0, 2, 7, 20, 25}

\* the ranges finished_requesting is called with
FinishedRanges ==
    { [UpdatableRange(2, DefaultExtendBy) EXCEPT !.current_page = cp] : cp \in CurPages }
    \cup { [UpdatableRange(-1, DefaultExtendBy) EXCEPT !.current_page = cp] : cp \in {0, 7} }

SchedInit ==
    /\ RangeIdle
    /\ CacheIdle
    /\ JobIdle
    /\ TimerIdle
    /\ OnceIdle
    /\ CtorIdle
    /\ ViewIdle
    /\ dry_run \in BOOLEAN
    /\ now = 0
    /\ \E c \in SchedConfigs :
          /\ ranges = [DefaultRanges EXCEPT ![ANIME] = c]
          /\ \E f \in InitFiles(c) :
                stateFile = [[rt \in RequestTypes |-> AbsentFile] EXCEPT ![ANIME] = f]
    /\ state = [rt \in RequestTypes |-> << >>]
    /\ schedHist = NoSchedCall

\* the clock advances
Tick ==
    /\ now < MaxTick
    /\ now' = now + 1
    /\ schedHist' = [NoSchedCall EXCEPT !.op = "tick", !.at = now + 1]
    /\ UNCHANGED <<dry_run, ranges, state, stateFile>>

\* JustAddedScheduler.prepare_request of request type rt
JustAddedPrepare(rt) ==
    LET st == read_state(ranges[rt], stateFile[rt])
    IN  /\ state' = [state EXCEPT ![rt] = st]
        /\ schedHist' = [op |-> "prepare", rt |-> rt,
                         ret |-> prepare_request_pages(st, now),
                         pre |-> << >>, at |-> now,
                         r_infinite |-> FALSE, r_current_page |-> 0]
        /\ UNCHANGED <<dry_run, now, ranges, stateFile>>

\* JustAddedScheduler.finished_requesting(r) of request type rt, with the
\* dump_state that ends it
JustAddedFinished(rt, r) ==
    LET st == finished_requesting(state[rt], r, now)
    IN  /\ state' = [state EXCEPT ![rt] = st]
        /\ stateFile' = [stateFile EXCEPT ![rt] = dump_state(st, stateFile[rt], dry_run)]
        /\ UNCHANGED <<dry_run, now, ranges>>

\* a caller calls finished_requesting(r) on the scheduler of rt
CallJustAddedFinished(rt, r) ==
    /\ JustAddedFinished(rt, r)
    /\ schedHist' = [op |-> "finished", rt |-> rt, ret |-> 0,
                     pre |-> state[rt], at |-> now,
                     r_infinite |-> r.infinite,
                     r_current_page |-> r.current_page]

SchedStep ==
    \/ Tick /\ UNCHANGED <<onceVars, rangeVars, cacheVars, jobVars, timerVars, viewVars, ctorVars>>
    \/ JustAddedPrepare(ANIME) /\ UNCHANGED <<onceVars, rangeVars, cacheVars, jobVars, timerVars, viewVars, ctorVars>>
    \/ \E r \in FinishedRanges :
          CallJustAddedFinished(ANIME, r) /\ UNCHANGED <<onceVars, rangeVars, cacheVars, jobVars, timerVars, viewVars, ctorVars>>

SpecSched == SchedInit /\ [][SchedStep]_vars

(***************************************************************************)
(* SpecAllSched: the full-enumeration scheduler of CHARACTER under an      *)
(* arbitrary caller, period, state file and clock.                         *)
(***************************************************************************)
\* the configurations: the single budget -1, checked every `period` seconds
AllPagesConfigs == { << [pages |-> -1, period |-> period] >> : period \in Periods }

AllSchedInit ==
    /\ RangeIdle
    /\ CacheIdle
    /\ JobIdle
    /\ TimerIdle
    /\ OnceIdle
    /\ CtorIdle
    /\ ViewIdle
    /\ dry_run \in BOOLEAN
    /\ now = 0
    /\ \E c \in AllPagesConfigs :
          /\ ranges = [DefaultRanges EXCEPT ![CHARACTER] = c]
          /\ \E f \in InitFiles(c) :
                stateFile = [[rt \in RequestTypes |-> AbsentFile] EXCEPT ![CHARACTER] = f]
    /\ state = [rt \in RequestTypes |-> << >>]
    /\ schedHist = NoSchedCall

\* AllPagesScheduler.finished_requesting of request type rt: self.state[-1] is
\* stamped; a state without the key -1 raises KeyError
AllPagesFinished(rt) ==
    LET st == [i \in 1 .. Len(state[rt]) |->
                  IF state[rt][i].pages = -1
                  THEN [state[rt][i] EXCEPT !.prev = IntTime(now)]
                  ELSE state[rt][i]]
    IN  /\ \E i \in 1 .. Len(state[rt]) : state[rt][i].pages = -1
        /\ state' = [state EXCEPT ![rt] = st]
        /\ stateFile' = [stateFile EXCEPT ![rt] = dump_state(st, stateFile[rt], dry_run)]
        /\ UNCHANGED <<dry_run, now, ranges>>

\* AllPagesScheduler.prepare_request of request type rt
AllPagesPrepare(rt) ==
    LET st == read_state(ranges[rt], stateFile[rt])
    IN  /\ state' = [state EXCEPT ![rt] = st]
        /\ schedHist' = [op |-> IF HasKey(st, -1) THEN "prepare" ELSE "raised",
                         rt |-> rt,
                         ret |-> IF HasKey(st, -1) /\ all_pages_prepare_request(st, now) # 0
                                 THEN JobPagesOf(rt, all_pages_prepare_request(st, now))
                                 ELSE 0,
                         pre |-> << >>, at |-> now,
                         r_infinite |-> FALSE, r_current_page |-> 0]
        /\ UNCHANGED <<dry_run, now, ranges, stateFile, finishedAt>>

\* a caller calls finished_requesting() on the full-enumeration scheduler of
\* rt: a state that was never read has no key -1 and the call raises KeyError
CallAllPagesFinished(rt) ==
    IF HasKey(state[rt], -1)
    THEN /\ AllPagesFinished(rt)
         /\ finishedAt' = now
         /\ schedHist' = [op |-> "finished", rt |-> rt, ret |-> 0,
                          pre |-> state[rt], at |-> now,
                          r_infinite |-> FALSE, r_current_page |-> 0]
    ELSE /\ schedHist' = [NoSchedCall EXCEPT !.op = "raised", !.rt = rt, !.at = now]
         /\ UNCHANGED <<dry_run, now, ranges, state, stateFile, finishedAt>>

AllSchedStep ==
    \/ Tick /\ UNCHANGED <<onceVars, rangeVars, cacheVars, jobVars, timerVars, viewVars, ctorVars>>
    \/ AllPagesPrepare(CHARACTER) /\ UNCHANGED <<onceVars, rangeVars, cacheVars, jobVars, viewVars, ctorVars>>
    \/ CallAllPagesFinished(CHARACTER) /\ UNCHANGED <<onceVars, rangeVars, cacheVars, jobVars, viewVars, ctorVars>>

SpecAllSched == AllSchedInit /\ [][AllSchedStep]_vars

(***************************************************************************)
(* SpecAdd: the add method of a recent-feed cache (ANIME) and of a full-   *)
(* enumeration cache (CHARACTER) under an arbitrary caller, starting from  *)
(* the default caches.                                                     *)
(***************************************************************************)
AddInit ==
    /\ RangeIdle
    /\ SchedIdle
    /\ CacheIdle
    /\ JobIdle
    /\ TimerIdle
    /\ OnceIdle
    /\ CtorIdle
    /\ ViewIdle

\* a caller calls JustAddedCache.add(item, nsfw) on the cacher of rt
CallJustAddedAdd(rt, item, nsfw) ==
    /\ Len(addLog) < MaxAdds
    /\ LET a == JustAddedAdd(cache[rt], item, nsfw)
       IN  /\ cache' = [cache EXCEPT ![rt] = a.cache]
           /\ addLog' = Append(addLog, [rt |-> rt, item |-> item, nsfw |-> nsfw,
                                        ret |-> a.ret])
    /\ UNCHANGED cacheFile

\* a caller calls AllPagesCache.add(item) on the cacher of rt
CallAllPagesAdd(rt, item) ==
    /\ Len(addLog) < MaxAdds
    /\ LET a == AllPagesAdd(cache[rt], item)
       IN  /\ cache' = [cache EXCEPT ![rt] = a.cache]
           /\ addLog' = Append(addLog, [rt |-> rt, item |-> item, nsfw |-> FALSE,
                                        ret |-> a.ret])
    /\ UNCHANGED cacheFile

AddStep ==
    \/ \E item \in Ids, nsfw \in BOOLEAN :
          CallJustAddedAdd(ANIME, item, nsfw) /\ UNCHANGED <<onceVars, rangeVars, schedVars, jobVars, timerVars, viewVars, ctorVars>>
    \/ \E item \in Ids :
          CallAllPagesAdd(CHARACTER, item) /\ UNCHANGED <<onceVars, rangeVars, schedVars, jobVars, timerVars, viewVars, ctorVars>>

SpecAdd == AddInit /\ [][AddStep]_vars

(***************************************************************************)
(* SpecFile: a recent-feed cacher (ANIME) and a full-enumeration cacher    *)
(* (CHARACTER), built over a missing or unparsable cache file, under a     *)
(* caller of read, add and dump.  addLog keeps the last calls.             *)
(***************************************************************************)
FileCachers == {ANIME, CHARACTER}

FileInit ==
    /\ RangeIdle
    /\ JobIdle
    /\ TimerIdle
    /\ OnceIdle
    /\ CtorIdle
    /\ ViewIdle
    /\ dry_run \in BOOLEAN
    /\ now = 0
    /\ ranges = DefaultRanges
    /\ state = [rt \in RequestTypes |-> << >>]
    /\ stateFile = [rt \in RequestTypes |-> AbsentFile]
    /\ schedHist = NoSchedCall
    /\ cache = [rt \in RequestTypes |-> EmptyDict]
    /\ \E fa, fc \in {AbsentFile, CorruptFile} :
          cacheFile = [rt \in RequestTypes |->
                          IF rt = ANIME THEN fa ELSE IF rt = CHARACTER THEN fc
                          ELSE AbsentFile]
    /\ addLog = << >>

\* the log of calls with one more call, the oldest forgotten
Remember(log, call) ==
    IF Len(log) < MaxRemembered THEN Append(log, call) ELSE Append(Tail(log), call)

\* a caller calls read() on the cacher of rt
FileRead(rt) ==
    /\ cache' = [cache EXCEPT ![rt] = read(cacheFile[rt], rt)]
    /\ addLog' = Remember(addLog, [rt |-> rt, op |-> "read", item |-> 0, nsfw |-> FALSE,
                                   ret |-> FALSE, raised |-> FALSE,
                                   mem |-> read(cacheFile[rt], rt),
                                   file |-> cacheFile[rt]])
    /\ UNCHANGED cacheFile

\* a caller calls dump() on the cacher of rt
FileDump(rt) ==
    /\ cacheFile' = [cacheFile EXCEPT ![rt] = dump(cache[rt], cacheFile[rt], dry_run)]
    /\ addLog' = Remember(addLog, [rt |-> rt, op |-> "dump", item |-> 0, nsfw |-> FALSE,
                                   ret |-> FALSE, raised |-> FALSE,
                                   mem |-> cache[rt],
                                   file |-> dump(cache[rt], cacheFile[rt], dry_run)])
    /\ UNCHANGED cache

\* a caller calls add on the cacher of rt: a cache without the key add looks
\* under raises KeyError
FileAdd(rt, item, nsfw) ==
    /\ ~IsJustAdded(rt) => ~nsfw
    /\ LET keys == IF IsJustAdded(rt) THEN {"sfw", "nsfw"} ELSE {"ids"}
           ok == keys \subseteq DOMAIN cache[rt]
           a == IF ~ok THEN [cache |-> cache[rt], ret |-> FALSE]
                ELSE IF IsJustAdded(rt) THEN JustAddedAdd(cache[rt], item, nsfw)
                ELSE AllPagesAdd(cache[rt], item)
       IN  /\ cache' = [cache EXCEPT ![rt] = a.cache]
           /\ addLog' = Remember(addLog, [rt |-> rt, op |-> "add", item |-> item,
                                          nsfw |-> nsfw, ret |-> a.ret, raised |-> ~ok,
                                          mem |-> a.cache, file |-> cacheFile[rt]])
    /\ UNCHANGED cacheFile

FileStep ==
    \/ \E rt \in FileCachers :
          FileRead(rt) /\ UNCHANGED <<onceVars, rangeVars, schedVars, jobVars, timerVars, viewVars, ctorVars>>
    \/ \E rt \in FileCachers :
          FileDump(rt) /\ UNCHANGED <<onceVars, rangeVars, schedVars, jobVars, timerVars, viewVars, ctorVars>>
    \/ \E rt \in FileCachers, item \in Ids, nsfw \in BOOLEAN :
          FileAdd(rt, item, nsfw)
             /\ UNCHANGED <<onceVars, rangeVars, schedVars, jobVars, timerVars, viewVars, ctorVars>>

SpecFile == FileInit /\ [][FileStep]_vars

(***************************************************************************)
(* SpecJob: a caller constructs Jobs.                                      *)
(***************************************************************************)
\* RequestType.NOT_SET
NOT_SET == 0
\* the request types a caller passes: the members of RequestType and an int
\* that is none of them
TypeArgs == {NOT_SET} \cup RequestTypes \cup {PERSON + 1}
\* the page counts a caller passes
PageArgs == -2 .. MaxPageArg

JobInit ==
    /\ RangeIdle
    /\ SchedIdle
    /\ CacheIdle
    /\ JobIdle
    /\ TimerIdle
    /\ OnceIdle
    /\ CtorIdle
    /\ ViewIdle

\* REQUEST_DESCRIPTION_CONVERTER, its items in the order they are written
REQUEST_DESCRIPTION_CONVERTER ==
    << [k |-> ANIME,     v |-> <<"a", "n", "i", "m", "e">>],
       [k |-> MANGA,     v |-> <<"m", "a", "n", "g", "a">>],
       [k |-> PERSON,    v |-> <<"c", "h", "a", "r", "a", "c", "t", "e", "r">>],
       [k |-> CHARACTER, v |-> <<"p", "e", "o", "p", "l", "e">>] >>

\* s[:1] and s[1:] of a string (a slice of a string too short is empty)
FirstChar(s) == IF Len(s) = 0 THEN << >> ELSE <<s[1]>>
RestChars(s) == IF Len(s) = 0 THEN << >> ELSE Tail(s)

\* {v[:1]: k for k, v in REQUEST_DESCRIPTION_CONVERTER.items()}: a later item
\* replaces an earlier one with the same key
RequestCharDict ==
    LET items == REQUEST_DESCRIPTION_CONVERTER
        keys  == {FirstChar(items[i].v) : i \in DOMAIN items}
        last(key) == CHOOSE i \in DOMAIN items :
                        /\ FirstChar(items[i].v) = key
                        /\ \A j \in DOMAIN items : FirstChar(items[j].v) = key => j <= i
    IN  [key \in keys |-> items[last(key)].k]

\* RequestType.from_request_char: the request type, or KeyError
from_request_char(request_type) ==
    IF request_type \in DOMAIN RequestCharDict
    THEN [raised |-> FALSE, val |-> RequestCharDict[request_type]]
    ELSE [raised |-> TRUE, val |-> 0]

\* int(s) of a string accepts an optional sign and at least one digit
\* (of the characters a request string is made of here)
IsIntLiteral(s) ==
    LET d == IF Len(s) > 0 /\ s[1] = "-" THEN Tail(s) ELSE s
    IN  /\ Len(d) > 0
        /\ \A i \in DOMAIN d : \E n \in DOMAIN Digits : Digits[n] = d[i]

\* the Job a caller has got, with what it was built from
Made(j, request_str, error) ==
    [asked_type |-> j.asked_type, asked_pages |-> j.asked_pages, raised |-> j.raised,
     request_type |-> j.request_type, pages |-> j.pages,
     request_str |-> request_str, error |-> error]

\* Job.from_network_request_string: the arguments of cls(...) are evaluated
\* from left to right, so the KeyError comes before the ValueError of int()
from_network_request_string(request_str) ==
    LET request_type_str == FirstChar(request_str)
        pages == RestChars(request_str)
        rt == from_request_char(request_type_str)
    IN  IF rt.raised
        THEN Made([NoJob EXCEPT !.raised = TRUE], request_str, "KeyError")
        ELSE IF ~IsIntLiteral(pages)
        THEN Made([NoJob EXCEPT !.raised = TRUE, !.asked_type = rt.val],
                  request_str, "ValueError")
        ELSE LET j == NewJob(rt.val, PyInt(pages))
             IN  Made(j, request_str, IF j.raised THEN "RuntimeError" ELSE "none")

\* the characters of the request strings a caller sends
RequestChars == {"a", "m", "c", "p", "x", "-", "1", "5"}
\* the request strings a caller sends
RequestStrings ==
    UNION {[1 .. n -> RequestChars] : n \in 0 .. MaxRequestLen}

\* a caller evaluates Job(request_type, pages)
MakeJob(request_type, pages) ==
    made' = LET j == NewJob(request_type, pages)
            IN  Made(j, << >>, IF j.raised THEN "RuntimeError" ELSE "none")

\* a caller evaluates Job.from_network_request_string(request_str)
ParseJob(request_str) ==
    made' = from_network_request_string(request_str)

JobStep ==
    \/ \E request_type \in TypeArgs, pages \in PageArgs :
          /\ MakeJob(request_type, pages)
          /\ UNCHANGED <<driver, shut, onceVars, rangeVars, schedVars, cacheVars, jobVars, timerVars, viewVars>>
    \/ \E request_str \in RequestStrings :
          /\ ParseJob(request_str)
          /\ UNCHANGED <<driver, shut, onceVars, rangeVars, schedVars, cacheVars, jobVars, timerVars, viewVars>>

SpecJob == JobInit /\ [][JobStep]_vars

(***************************************************************************)
(* SpecView: the Unapproved object under one caller of anime() and         *)
(* manga(), with its decay task, the clock, the remote page and the two    *)
(* recent-feed cachers changing underneath.  A step runs the caller from   *)
(* one suspension point to the next.                                       *)
(***************************************************************************)
\* Unapproved.is_parsed
is_parsed(v) == v._anime.some /\ v._manga.some

\* a slip in decay_loop: data is removed whenever there is data
Mut_decay_ignores_wait(v, t) == v._requested_at.some

\* Unapproved.decay_loop: the test that leads to decay_data, at clock tick t
DecayDue(v, t) ==
    /\ v._requested_at.some
    /\ t - v._requested_at.val > DECAY_WAIT_TIME * TicksPerSec

\* Unapproved.decay_data
decay_data(v) ==
    [ _html_response |-> "none", _html_text |-> None, _anime |-> Some(<< >>),
      _manga |-> Some(<< >>), _requested_at |-> None ]

\* Unapproved._parse_page: `if len(tables) != 2: raise RuntimeError`
parse_raises(v) == v._html_text.val.tables # 2

\* Unapproved._parse_page on the text of a page with its two tables
_parse_page(v) ==
    [v EXCEPT !._anime = Some(v._html_text.val.anime),
              !._manga = Some(v._html_text.val.manga)]

\* set(l) of a list
SetOf(l) == { l[i] : i \in 1 .. Len(l) }

\* the request type whose cacher anime() or manga() looks at
KindType(kind) == IF kind = "anime" THEN ANIME ELSE MANGA

\* a slip in anime() and manga(): a call leaves _requested_at as it was
Mut_result_keeps_stamp(v, kind, c, t) ==
    [ view |-> v,
      result |-> sorted(SetOf(IF kind = "anime" THEN v._anime.val ELSE v._manga.val)
                          \ (c.sfw \cup c.nsfw)) ]

\* anime() / manga() from `approved_entries = ...` on, at clock tick t: the
\* object after the call and the list returned
view_result(v, kind, c, t) ==
    [ view |-> [v EXCEPT !._requested_at = Some(t)],
      result |-> sorted(SetOf(IF kind = "anime" THEN v._anime.val ELSE v._manga.val)
                          \ (c.sfw \cup c.nsfw)) ]

\* the instants (clock ticks) the specification observes
ViewClock ==
    { (a * DECAY_WAIT_TIME + b * DECAY_CHECK_TIME) * TicksPerSec :
        a \in 0 .. MaxWaits, b \in 0 .. MaxChecks }

\* what the relation-id page may hold: ids out of order and repeated, ids of
\* one table only, and a page that has one table instead of two
RemotePages ==
    { [tables |-> 2, anime |-> <<2, 1>>, manga |-> <<1, 1>>],
      [tables |-> 2, anime |-> <<1>>, manga |-> << >>],
      [tables |-> 1, anime |-> <<1>>, manga |-> << >>] }

ViewInit ==
    /\ RangeIdle
    /\ CacheIdle
    /\ JobIdle
    /\ TimerIdle
    /\ OnceIdle
    /\ CtorIdle
    /\ dry_run \in BOOLEAN
    /\ now = 0
    /\ ranges = DefaultRanges
    /\ state = [rt \in RequestTypes |-> << >>]
    /\ stateFile = [rt \in RequestTypes |-> AbsentFile]
    /\ schedHist = NoSchedCall
    /\ view = NewUnapproved
    /\ remote \in RemotePages
    /\ viewHist = NoViewCaller

\* the call of the caller returns `result` at the end of this step
Completed(h, kind, result, fetched) ==
    [h EXCEPT !.pc = "idle", !.decayed = FALSE,
              !.prev = h.last,
              !.last = [ kind |-> kind, result |-> result, started |-> h.started,
                         at |-> now, fetched |-> fetched,
                         after_decay |-> h.after_decay,
                         approved |-> <<cache[ANIME], cache[MANGA]>>,
                         table |-> h.table[kind] ]]

\* the call of the caller raises at the end of this step
Raised(h) ==
    [h EXCEPT !.pc = "idle", !.decayed = FALSE, !.prev = h.last,
              !.last = [NoViewCall EXCEPT !.kind = "raised", !.started = h.started,
                                          !.at = now, !.fetched = h.fetched]]

\* the caller calls anime() or manga(): the call runs to its first
\* suspension, which is the remote request, the parse in the executor, or
\* (snapshot at hand, or dry run) its return
ViewCall(kind) ==
    /\ viewHist.pc = "idle"
    /\ LET v1 == IF kind = "manga" THEN [view EXCEPT !._requested_at = Some(now)]
                 ELSE view
           h1 == [viewHist EXCEPT !.kind = kind, !.started = now, !.fetched = FALSE,
                                  !.after_decay = viewHist.decayed]
       IN  IF is_parsed(v1)
           THEN LET a == view_result(v1, kind, cache[KindType(kind)], now)
                IN  /\ view' = a.view
                    /\ viewHist' = Completed(h1, kind, a.result, FALSE)
           ELSE IF v1._html_response = "none" /\ dry_run
                THEN LET v2 == [v1 EXCEPT !._anime = Some(<< >>), !._manga = Some(<< >>)]
                         a == view_result(v2, kind, cache[KindType(kind)], now)
                     IN  /\ view' = a.view
                         /\ viewHist' = Completed(h1, kind, a.result, FALSE)
                ELSE /\ view' = v1
                     /\ viewHist' = [h1 EXCEPT !.pc = IF v1._html_response = "none"
                                                      THEN "request" ELSE "parse"]
    /\ UNCHANGED <<remote, cache>>

\* _request gets the page: _parse goes on to the parse in the executor, or,
\* the id lists having been set meanwhile, returns to the caller's call
ViewResponse ==
    /\ viewHist.pc = "request"
    /\ LET v1 == [view EXCEPT !._html_response = "ok", !._html_text = Some(remote)]
           h1 == [viewHist EXCEPT !.fetched = TRUE, !.table = remote]
       IN  IF is_parsed(v1)
           THEN LET a == view_result(v1, h1.kind, cache[KindType(h1.kind)], now)
                IN  /\ view' = a.view
                    /\ viewHist' = Completed(h1, h1.kind, a.result, TRUE)
           ELSE /\ view' = v1
                /\ viewHist' = [h1 EXCEPT !.pc = "parse"]
    /\ UNCHANGED <<remote, cache>>

\* _request gives up after its last retry: the error response stays in
\* _html_response and the exception leaves the call
ViewRequestFails ==
    /\ viewHist.pc = "request"
    /\ view' = [view EXCEPT !._html_response = "error"]
    /\ viewHist' = Raised(viewHist)
    /\ UNCHANGED <<remote, cache>>

\* _parse_page has run in the executor (it raises on a text that is None and
\* on a page without its two tables, assigning nothing) and the call returns
ViewParse ==
    /\ viewHist.pc = "parse"
    /\ IF view._html_text.some /\ ~parse_raises(view)
       THEN LET a == view_result(_parse_page(view), viewHist.kind,
                                 cache[KindType(viewHist.kind)], now)
            IN  /\ view' = a.view
                /\ viewHist' = Completed(viewHist, viewHist.kind, a.result,
                                         viewHist.fetched)
       ELSE /\ view' = view
            /\ viewHist' = Raised(viewHist)
    /\ UNCHANGED <<remote, cache>>

\* a slip in decay_data: the sets of the two cachers are emptied as well
Mut_decay_clears_caches ==
    /\ DecayDue(view, now)
    /\ view' = decay_data(view)
    /\ viewHist' = [viewHist EXCEPT !.decayed = TRUE]
    /\ cache' = [cache EXCEPT ![ANIME] = JustAddedDefaultCache,
                              ![MANGA] = JustAddedDefaultCache]
    /\ UNCHANGED remote

\* decay_loop wakes up and finds the data unused for too long: decay_data
ViewDecay ==
    /\ DecayDue(view, now)
    /\ view' = decay_data(view)
    /\ viewHist' = [viewHist EXCEPT !.decayed = TRUE]
    /\ UNCHANGED <<remote, cache>>

\* the clock advances to a later instant
ViewTick ==
    /\ \E t \in ViewClock : t > now /\ now' = t
    /\ UNCHANGED <<dry_run, ranges, state, stateFile, schedHist>>

\* the remote page changes
RemoteChange ==
    /\ \E page \in RemotePages : page # remote /\ remote' = page
    /\ UNCHANGED <<view, viewHist, cache>>

\* a recent-feed cacher approves an id
ViewCacheAdd(rt, item, nsfw) ==
    /\ Cardinality(cache[ANIME].sfw \cup cache[ANIME].nsfw)
         + Cardinality(cache[MANGA].sfw \cup cache[MANGA].nsfw) < MaxApproved
    /\ cache' = [cache EXCEPT ![rt] = JustAddedAdd(cache[rt], item, nsfw).cache]
    /\ UNCHANGED <<view, remote, viewHist>>

ViewStep ==
    \/ \E kind \in {"anime", "manga"} :
          ViewCall(kind)
             /\ UNCHANGED <<onceVars, rangeVars, schedVars, cacheFile, addLog, jobVars,
                            timerVars, ctorVars>>
    \/ ViewResponse
          /\ UNCHANGED <<onceVars, rangeVars, schedVars, cacheFile, addLog, jobVars, timerVars, ctorVars>>
    \/ ViewRequestFails
          /\ UNCHANGED <<onceVars, rangeVars, schedVars, cacheFile, addLog, jobVars, timerVars, ctorVars>>
    \/ ViewParse
          /\ UNCHANGED <<onceVars, rangeVars, schedVars, cacheFile, addLog, jobVars, timerVars, ctorVars>>
    \/ ViewDecay
          /\ UNCHANGED <<onceVars, rangeVars, schedVars, cacheFile, addLog, jobVars, timerVars, ctorVars>>
    \/ ViewTick
          /\ UNCHANGED <<onceVars, rangeVars, cacheVars, jobVars, timerVars, viewVars, ctorVars>>
    \/ RemoteChange
          /\ UNCHANGED <<onceVars, rangeVars, schedVars, cacheFile, addLog, jobVars, timerVars, ctorVars>>
    \/ \E rt \in {ANIME, MANGA}, item \in Ids, nsfw \in BOOLEAN :
          ViewCacheAdd(rt, item, nsfw)
             /\ UNCHANGED <<onceVars, rangeVars, schedVars, cacheFile, addLog, jobVars,
                            timerVars, ctorVars>>

SpecView == ViewInit /\ [][ViewStep]_vars

(***************************************************************************)
(* Spec: process_job of the four cachers run by concurrent coroutines.     *)
(* A step runs a coroutine from one suspension point to the next: the      *)
(* wait for the lock, the page or letter request, the writes of the files. *)
(***************************************************************************)
\* the page counts a Job is built with (prepare_request, or a request string)
JobPages == {-2, -1} \cup (0 .. MaxJobPages)

Init ==
    /\ RangeIdle
    /\ CacheIdle
    /\ JobIdle
    /\ TimerIdle
    /\ OnceIdle
    /\ CtorIdle
    /\ ViewIdle
    /\ dry_run \in BOOLEAN
    \* one second after the epoch of the never-checked budgets
    /\ now = TicksPerSec
    /\ ranges = DefaultRanges
    /\ stateFile = [rt \in RequestTypes |-> AbsentFile]
    \* no scheduler has read its state yet, or each has (prepare_request)
    /\ \/ state = [rt \in RequestTypes |-> << >>]
       \/ state = [rt \in RequestTypes |-> read_state(ranges[rt], stateFile[rt])]
    /\ schedHist = NoSchedCall

\* a slip in process_job: the lock is kept when `async with requesting` is left
Mut_release_keeps_holder(lock) == lock

\* `async with requesting` is left: the lock is released
Release(lock) == [lock EXCEPT !.holder = 0]

\* a slip in process_job: the cache is not written when the passes are over
Mut_passes_done_skips_dump(tk, r) ==
    [tk EXCEPT !.pc = "finish", !.pass = "none", !.r = NoRange, !.updatable = r,
               !.letters = {}, !.letter = ""]

\* JustAddedCache.process_job after the SFW pass has returned range r: the
\* lock is left and the coroutine is about to dump
PassesDone(tk, r) ==
    [tk EXCEPT !.pc = "dump", !.pass = "none", !.r = NoRange, !.updatable = r,
               !.letters = {}, !.letter = ""]

\* JustAddedCache._process_job_type(initial_pages = job.pages, nsfw = False)
\* up to its first request
StartSfw(tk) ==
    LET res == __next__(UpdatableRange(tk.pages, DefaultExtendBy))
    IN  IF ~res.stop
        THEN [tk EXCEPT !.pc = "request", !.pass = "sfw", !.r = res.range]
        ELSE PassesDone(tk, res.range)

\* JustAddedCache._process_job_type returns range r: the NSFW pass is followed
\* by the SFW pass, the SFW pass ends the request phase
EndPass(tk, r) == IF tk.pass = "nsfw" THEN StartSfw(tk) ELSE PassesDone(tk, r)

\* JustAddedCache._process_job_type at the top of `for page in updatable`
Advance(tk, r) ==
    LET res == __next__(r)
    IN  IF ~res.stop
        THEN [tk EXCEPT !.pc = "request", !.r = res.range]
        ELSE EndPass(tk, r)

\* JustAddedCache._process_job_type(initial_pages = nsfw_pages, nsfw = True)
\* up to its first request
StartNsfw(tk) ==
    Advance([tk EXCEPT !.pass = "nsfw"],
            UpdatableRange(NsfwPages(tk.pages), DefaultExtendBy))

\* a slip in process_job: the loop over the letters ends after its first letter
Mut_advance_letters_stops_early(tk, l) ==
    IF tk.letters = {}
    THEN [tk EXCEPT !.pc = "dump", !.pass = "none", !.letter = ""]
    ELSE [tk EXCEPT !.pc = "request", !.pass = "letters", !.letter = l,
                    !.letters = {}]

\* AllPagesCache.process_job at the top of `for letter in random.sample(...)`:
\* l is the letter the shuffle put next ("" when none is left)
AdvanceLetters(tk, l) ==
    IF tk.letters = {}
    THEN [tk EXCEPT !.pc = "dump", !.pass = "none", !.letter = ""]
    ELSE [tk EXCEPT !.pc = "request", !.pass = "letters", !.letter = l,
                    !.letters = @ \ {l}]

\* the letters the shuffle may put next
NextLetters(tk) == IF tk.letters = {} THEN {""} ELSE tk.letters

\* a caller starts cachers[rt].process_job(Job(rt, pages)) as coroutine t, which
\* runs up to `async with requesting`
Call(t, rt, pages) ==
    /\ tasks[t].pc = "idle"
    \* coroutines are numbered in the order they are started
    /\ \A u \in Tasks : u < t => tasks[u].pc # "idle"
    /\ pages = JobPagesOf(rt, pages)
    /\ LET jp == JobPagesOf(rt, pages)
           tk == [IdleTask EXCEPT
                    !.rt = rt, !.pages = jp,
                    !.updatable = IF IsJustAdded(rt)
                                  THEN UpdatableRange(jp, DefaultExtendBy)
                                  ELSE NoRange]
       IN  IF CanAcquire(requesting)
           THEN /\ requesting' = [requesting EXCEPT !.holder = t]
                /\ tasks' = [tasks EXCEPT ![t] = [tk EXCEPT !.pc = "locked"]]
           ELSE /\ requesting' = [requesting EXCEPT !.waiters = Append(@, t)]
                /\ tasks' = [tasks EXCEPT ![t] = [tk EXCEPT !.pc = "waiting"]]
    /\ jobHist' = NoEvent
    /\ UNCHANGED <<schedVars, cacheVars>>

\* the released lock wakes its first waiter, which takes it
Wake(t) ==
    /\ tasks[t].pc = "waiting"
    /\ requesting.holder = 0
    /\ requesting.waiters # << >>
    /\ Head(requesting.waiters) = t
    /\ requesting' = [holder |-> t, waiters |-> Tail(requesting.waiters)]
    /\ tasks' = [tasks EXCEPT ![t].pc = "locked"]
    /\ jobHist' = NoEvent
    /\ UNCHANGED <<schedVars, cacheVars>>

\* process_job inside the lock, from "Processing {job}" to its first request
\* (or, in a dry run or with nothing to request, to the end of the lock)
Begin(t, l) ==
    /\ tasks[t].pc = "locked"
    /\ LET tk == tasks[t]
           nt == IF dry_run THEN [tk EXCEPT !.pc = "dump"]
                 ELSE IF IsJustAdded(tk.rt) THEN StartNsfw(tk)
                 ELSE AdvanceLetters([tk EXCEPT !.letters = LETTER_ENDPOINTS], l)
       IN  /\ l \in (IF dry_run \/ IsJustAdded(tk.rt) THEN {""} ELSE LETTER_ENDPOINTS)
           /\ tasks' = [tasks EXCEPT ![t] = nt]
           /\ requesting' = IF nt.pc = "dump" THEN Release(requesting) ELSE requesting
    /\ jobHist' = NoEvent
    /\ UNCHANGED <<schedVars, cacheVars>>

\* request_page of a recent-feed cacher returns ids: every id is added, the
\* range is extended for each new one, and the pass goes on to its next request
JustAddedResponse(t, ids) ==
    /\ tasks[t].pc = "request"
    /\ IsJustAdded(tasks[t].rt)
    /\ tasks[t].r.current_page > MaxFeedPage => ids = << >>
    /\ LET tk == tasks[t]
           nsfw == (tk.pass = "nsfw")
           a == JustAddedAddAll(cache[tk.rt], tk.r, ids, 1, tk.r.current_page, nsfw)
           nt == IF ids = << >> THEN EndPass(tk, tk.r) ELSE Advance(tk, a.range)
       IN  /\ cache' = [cache EXCEPT ![tk.rt] = a.cache]
           /\ tasks' = [tasks EXCEPT ![t] = nt]
           /\ requesting' = IF nt.pc = "dump" THEN Release(requesting) ELSE requesting
           /\ jobHist' = IF \E i \in 1 .. Len(ids) :
                                IF nsfw THEN ids[i] \in cache[tk.rt].sfw
                                ELSE ids[i] \in cache[tk.rt].nsfw
                          THEN [ev |-> "known", t |-> t, rt |-> tk.rt, nsfw |-> nsfw]
                          ELSE NoEvent
    /\ UNCHANGED <<schedVars, cacheFile, addLog>>

\* request_page of a full-enumeration cacher returns ids (none for a 404 on
\* "."): every id is added and the loop goes on to letter l
AllPagesResponse(t, ids, l) ==
    /\ tasks[t].pc = "request"
    /\ ~IsJustAdded(tasks[t].rt)
    /\ l \in NextLetters(tasks[t])
    /\ LET tk == tasks[t]
           nt == AdvanceLetters(tk, l)
       IN  /\ cache' = [cache EXCEPT ![tk.rt] = AllPagesAddAll(cache[tk.rt], ids, 1)]
           /\ tasks' = [tasks EXCEPT ![t] = nt]
           /\ requesting' = IF nt.pc = "dump" THEN Release(requesting) ELSE requesting
           /\ jobHist' = NoEvent
    /\ UNCHANGED <<schedVars, cacheFile, addLog>>

\* a slip in process_job: the exception of a request leaves process_job with
\* the lock still held
Mut_request_fails_keeps_lock(t) ==
    /\ tasks[t].pc = "request"
    /\ tasks' = [tasks EXCEPT ![t] = [IdleTask EXCEPT !.pc = "raised"]]
    /\ jobHist' = NoEvent
    /\ UNCHANGED <<schedVars, cacheVars, requesting>>

\* _request gives up after its last retry: the exception leaves the lock and
\* process_job
RequestFails(t) ==
    /\ tasks[t].pc = "request"
    /\ requesting' = Release(requesting)
    /\ tasks' = [tasks EXCEPT ![t] = [IdleTask EXCEPT !.pc = "raised"]]
    /\ jobHist' = NoEvent
    /\ UNCHANGED <<schedVars, cacheVars>>

\* process_job: await self.dump()
Dump(t) ==
    /\ tasks[t].pc = "dump"
    /\ LET rt == tasks[t].rt
       IN  cacheFile' = [cacheFile EXCEPT ![rt] = dump(cache[rt], cacheFile[rt], dry_run)]
    /\ tasks' = [tasks EXCEPT ![t].pc = "finish"]
    /\ jobHist' = NoEvent
    /\ UNCHANGED <<schedVars, cache, addLog, requesting>>

\* process_job: await self.scheduler.finished_requesting(...)
Finish(t) ==
    /\ tasks[t].pc = "finish"
    /\ LET tk == tasks[t]
       IN  IF IsJustAdded(tk.rt)
           THEN /\ JustAddedFinished(tk.rt, tk.updatable)
                /\ tasks' = [tasks EXCEPT ![t] = [IdleTask EXCEPT !.pc = "done"]]
           ELSE IF \E i \in 1 .. Len(state[tk.rt]) : state[tk.rt][i].pages = -1
                THEN /\ AllPagesFinished(tk.rt)
                     /\ tasks' = [tasks EXCEPT ![t] = [IdleTask EXCEPT !.pc = "done"]]
                ELSE /\ UNCHANGED schedVars
                     /\ tasks' = [tasks EXCEPT ![t] = [IdleTask EXCEPT !.pc = "raised"]]
    /\ jobHist' = NoEvent
    /\ UNCHANGED <<schedHist, cacheVars, requesting>>

Next ==
    \/ \E t \in Tasks, rt \in RequestTypes, pages \in JobPages :
          Call(t, rt, pages) /\ UNCHANGED <<onceVars, rangeVars, timerVars, viewVars, ctorVars>>
    \/ \E t \in Tasks : Wake(t) /\ UNCHANGED <<onceVars, rangeVars, timerVars, viewVars, ctorVars>>
    \/ \E t \in Tasks, l \in LETTER_ENDPOINTS \cup {""} : Begin(t, l) /\ UNCHANGED <<onceVars, rangeVars, timerVars, viewVars, ctorVars>>
    \/ \E t \in Tasks, ids \in PageResults : JustAddedResponse(t, ids) /\ UNCHANGED <<onceVars, rangeVars, timerVars, viewVars, ctorVars>>
    \/ \E t \in Tasks, ids \in PageResults, l \in LETTER_ENDPOINTS \cup {""} :
          AllPagesResponse(t, ids, l) /\ UNCHANGED <<onceVars, rangeVars, timerVars, viewVars, ctorVars>>
    \/ \E t \in Tasks : RequestFails(t) /\ UNCHANGED <<onceVars, rangeVars, timerVars, viewVars, ctorVars>>
    \/ \E t \in Tasks : Dump(t) /\ UNCHANGED <<onceVars, rangeVars, timerVars, viewVars, ctorVars>>
    \/ \E t \in Tasks : Finish(t) /\ UNCHANGED <<onceVars, rangeVars, timerVars, viewVars, ctorVars>>

Spec == Init /\ [][Next]_vars

(***************************************************************************)
(* SpecOnce: one caller that runs one Job at a time, awaiting              *)
(* process_job(job) (the sequence run.once is written for): it             *)
(* asks a scheduler for a Job (or builds one itself, as --initialize does) *)
(* and awaits process_job, MaxOnceJobs times.  The feed is MaxOncePage     *)
(* pages deep, a request is retried by backoff, and the clock runs on.     *)
(* The recent-feed pair is that of ANIME, the full-enumeration pair that   *)
(* of CHARACTER.                                                           *)
(***************************************************************************)
\* the coroutine of the caller
OnceTask == 1

\* the request types the caller serves
OnceTypes == {ANIME, CHARACTER}

\* the configuration: two pages every second and all pages every three for
\* the recent feed, all pages every second for the full enumeration
OnceRanges ==
    [rt \in RequestTypes |->
        IF rt \in {ANIME, MANGA}
        THEN << [pages |-> 2, period |-> 1], [pages |-> -1, period |-> 3] >>
        ELSE << [pages |-> -1, period |-> 1] >>]

\* the clock starts late enough for a budget never checked (prev = 0) to be due
OnceStart == 4 * TicksPerSec

\* the state files the schedulers find: none, or one in which all pages were
\* checked in the second the clock starts in
OnceFiles(rt) ==
    { AbsentFile,
      [ exists |-> TRUE, valid |-> TRUE,
        data |-> dump_dictionary(<< [ pages |-> -1,
                                      every_x_seconds |-> 3,
                                      prev |-> IntTime(OnceStart) ] >>) ] }

\* the cache files the recent-feed cacher finds when it is constructed: none,
\* or one that holds id 1 as SFW
OnceCacheFiles ==
    { AbsentFile, dump([JustAddedDefaultCache EXCEPT !.sfw = {1}], AbsentFile, FALSE) }

\* the page counts the caller builds a Job with itself
OnceDirectPages == {-2, -1, 0}

\* the id lists a page or letter request returns to the caller's Job
OnceResults == { << >>, <<1>>, <<2>> }

OnceInit ==
    /\ RangeIdle
    /\ \E f \in OnceCacheFiles :
          cacheFile = [[rt \in RequestTypes |-> AbsentFile] EXCEPT ![ANIME] = f]
    /\ cache = [rt \in RequestTypes |-> read(cacheFile[rt], rt)]
    /\ addLog = << >>
    /\ JobIdle
    /\ TimerIdle
    /\ OnceIdle
    /\ CtorIdle
    /\ ViewIdle
    /\ dry_run \in BOOLEAN
    /\ now = OnceStart
    /\ ranges = OnceRanges
    /\ state = [rt \in RequestTypes |-> << >>]
    /\ \E f \in OnceFiles(ANIME) :
          stateFile = [[rt \in RequestTypes |-> AbsentFile] EXCEPT ![ANIME] = f]
    /\ schedHist = NoSchedCall

\* a slip in the retry decorator: one attempt more is made
Mut_backoff_one_more(tries) == tries > max_tries

\* backoff.on_exception(..., max_tries=10) after the attempt numbered `tries`
\* has raised: no other attempt is made and the exception is raised
backoff_gives_up(tries) == tries >= max_tries

\* a slip in _process_job_type: only the NSFW pass ends at a page without ids
Mut_empty_page_ends_nsfw_only(tk, c, ids) ==
    LET a == JustAddedAddAll(c, tk.r, ids, 1, tk.r.current_page, tk.pass = "nsfw")
    IN  [ task |-> IF ids = << >> /\ tk.pass = "nsfw"
                   THEN EndPass(tk, tk.r) ELSE Advance(tk, a.range),
          cache |-> a.cache ]

\* a slip in _process_job_type: the loop goes on after a page without ids
Mut_empty_page_continues(tk, c, ids) ==
    LET a == JustAddedAddAll(c, tk.r, ids, 1, tk.r.current_page, tk.pass = "nsfw")
    IN  [ task |-> Advance(tk, a.range), cache |-> a.cache ]

\* JustAddedCache._process_job_type from the return of request_page with
\* `ids` to the next request (or the end of the pass): the coroutine and the
\* cache after it
process_page(tk, c, ids) ==
    LET a == JustAddedAddAll(c, tk.r, ids, 1, tk.r.current_page, tk.pass = "nsfw")
    IN  [ task |-> IF ids = << >> THEN EndPass(tk, tk.r) ELSE Advance(tk, a.range),
          cache |-> a.cache ]

\* a slip in process_job: the exception of a request is swallowed and the
\* coroutine goes on to write the cache
Mut_abort_goes_on(tk) == [tk EXCEPT !.pc = "dump", !.updatable = tk.r]

\* an exception leaves process_job: the coroutine is over
Abort(tk) == [IdleTask EXCEPT !.pc = "raised"]

\* the caller awaits nothing
OnceFree ==
    /\ tasks[OnceTask].pc \in {"idle", "done", "raised"}
    /\ onceHist.phase # "prepared"

\* the caller keeps to the scheduler and cacher of the request type it began with
OnceServes(rt) == onceHist.phase = "none" \/ onceHist.rt = rt

\* what the caller notes when the SFW pass of its Job has returned
SfwEnd(nt, ids) ==
    [ cp |-> nt.updatable.current_page, till |-> nt.updatable.check_till,
      empty |-> (ids = << >>) ]

\* schedule.prepare_request() for request type rt
OncePrepare(rt) ==
    /\ OnceFree
    /\ OnceServes(rt)
    /\ onceHist.jobs < MaxOnceJobs
    /\ LET st == read_state(ranges[rt], stateFile[rt])
           p == IF IsJustAdded(rt) THEN prepare_request_pages(st, now)
                ELSE all_pages_prepare_request(st, now)
       IN  /\ state' = [state EXCEPT ![rt] = st]
           /\ onceHist' = [NoOnce EXCEPT !.phase = IF p = 0 THEN "nojob" ELSE "prepared",
                                         !.jobs = onceHist.jobs,
                                         !.rt = rt, !.pages = p, !.from_prepare = TRUE,
                                         !.at = now]
    /\ tasks' = [tasks EXCEPT ![OnceTask] = IdleTask]
    /\ UNCHANGED <<dry_run, now, ranges, stateFile, schedHist, cacheVars,
                   requesting, jobHist>>

\* the page or the letter that coroutine tk requests
Asked(tk) == IF IsJustAdded(tk.rt) THEN tk.r.current_page ELSE tk.letter

\* the response statuses of the letter pages
OnceStatuses == {200, 404}

\* a slip in _request: a 404 on "." is an error like any other
Mut_letter_page_404_raises(letter, status, ids) ==
    IF status >= 400 THEN [raised |-> TRUE, ids |-> << >>]
    ELSE [raised |-> FALSE, ids |-> ids]

\* AllPagesCache._request and _parse for a response of `status` whose page
\* lists `ids`: whether raise_for_status raises, and the ids returned
letter_page(letter, status, ids) ==
    IF status = 404 /\ letter = "." THEN [raised |-> FALSE, ids |-> << >>]
    ELSE IF status >= 400 THEN [raised |-> TRUE, ids |-> << >>]
    ELSE [raised |-> FALSE, ids |-> ids]

\* cachers[rt].process_job(Job(rt, pages)) from the call to its first request
\* (or, in a dry run or with no page to request, to the end of the lock); l
\* is the letter the shuffle put first
StartJob(rt, pages, from_prepare, l) ==
    LET jp == JobPagesOf(rt, pages)
        tk == [IdleTask EXCEPT
                 !.rt = rt, !.pages = jp,
                 !.updatable = IF IsJustAdded(rt)
                               THEN UpdatableRange(jp, DefaultExtendBy)
                               ELSE NoRange]
        nt == IF dry_run THEN [tk EXCEPT !.pc = "dump"]
              ELSE IF IsJustAdded(rt) THEN StartNsfw(tk)
              ELSE AdvanceLetters([tk EXCEPT !.letters = LETTER_ENDPOINTS], l)
    IN  /\ CanAcquire(requesting)
        /\ l \in (IF dry_run \/ IsJustAdded(rt) THEN {""} ELSE LETTER_ENDPOINTS)
        /\ tasks' = [tasks EXCEPT ![OnceTask] = nt]
        /\ requesting' = IF nt.pc = "dump" THEN Release(requesting)
                         ELSE [requesting EXCEPT !.holder = OnceTask]
        /\ onceHist' = [NoOnce EXCEPT
                          !.phase = "running", !.jobs = onceHist.jobs + 1,
                          !.rt = rt, !.pages = jp,
                          !.from_prepare = from_prepare,
                          !.tries = IF nt.pc = "request" THEN 1 ELSE 0,
                          !.asked = IF nt.pc = "request" THEN <<Asked(nt)>> ELSE << >>,
                          !.sfw_end = IF nt.pc = "dump" /\ IsJustAdded(rt) /\ ~dry_run
                                      THEN SfwEnd(nt, <<0>>) ELSE @,
                          !.pre = [ cacheFile |-> cacheFile[rt],
                                    stateFile |-> stateFile[rt],
                                    state |-> state[rt],
                                    cache |-> cache[rt] ]]
        /\ UNCHANGED <<schedVars, cacheVars, jobHist>>

\* the Job that prepare_request returned is processed: process_job(job)
OnceProcess(l) ==
    /\ onceHist.phase = "prepared"
    /\ StartJob(onceHist.rt, onceHist.pages, TRUE, l)

\* the caller builds a Job itself and processes it
OnceDirect(rt, pages, l) ==
    /\ OnceFree
    /\ OnceServes(rt)
    /\ onceHist.jobs < MaxOnceJobs
    /\ StartJob(rt, pages, FALSE, l)

\* request_page of the recent-feed cacher returns ids
OnceResponse(ids) ==
    /\ tasks[OnceTask].pc = "request"
    /\ IsJustAdded(tasks[OnceTask].rt)
    /\ tasks[OnceTask].r.current_page > MaxOncePage => ids = << >>
    /\ LET tk == tasks[OnceTask]
           res == process_page(tk, cache[tk.rt], ids)
       IN  /\ cache' = [cache EXCEPT ![tk.rt] = res.cache]
           /\ tasks' = [tasks EXCEPT ![OnceTask] = res.task]
           /\ requesting' = IF res.task.pc = "dump" THEN Release(requesting)
                            ELSE requesting
           /\ onceHist' = [onceHist EXCEPT
                             !.tries = IF res.task.pc = "request" THEN 1 ELSE 0,
                             !.empty_pass = IF ids = << >> THEN tk.pass ELSE @,
                             !.asked = IF res.task.pc # "request" THEN @
                                       ELSE IF res.task.pass = tk.pass
                                       THEN Append(@, Asked(res.task))
                                       ELSE <<Asked(res.task)>>,
                             !.found2 = @ \/ ( /\ tk.pass = "sfw"
                                               /\ tk.r.current_page = 2
                                               /\ res.cache # cache[tk.rt] ),
                             !.sfw_end = IF res.task.pc = "dump"
                                         THEN SfwEnd(res.task, ids) ELSE @]
    /\ UNCHANGED <<schedVars, cacheFile, addLog, jobHist>>

\* request_page of the full-enumeration cacher returns ids; l is the letter
\* the shuffle put next
OnceLetterResponse(status, ids, l) ==
    /\ tasks[OnceTask].pc = "request"
    /\ ~IsJustAdded(tasks[OnceTask].rt)
    /\ l \in NextLetters(tasks[OnceTask])
    /\ LET tk == tasks[OnceTask]
           page == letter_page(tk.letter, status, ids)
           nt == AdvanceLetters(tk, l)
       IN  /\ ~page.raised
           /\ status = 404 => ids = << >>
           /\ cache' = [cache EXCEPT ![tk.rt] = AllPagesAddAll(cache[tk.rt], page.ids, 1)]
           /\ tasks' = [tasks EXCEPT ![OnceTask] = nt]
           /\ requesting' = IF nt.pc = "dump" THEN Release(requesting) ELSE requesting
           /\ onceHist' = [onceHist EXCEPT
                             !.tries = IF nt.pc = "request" THEN 1 ELSE 0,
                             !.asked = IF nt.pc = "request" THEN Append(@, Asked(nt))
                                       ELSE @,
                             !.got = @ \cup SetOf(page.ids),
                             !.dot404 = @ \/ status = 404]
    /\ UNCHANGED <<schedVars, cacheFile, addLog, jobHist>>

\* an attempt of _request raises the exception backoff retries on (the rate
\* limit): another attempt is made, or, after the last, the exception leaves
\* the lock and process_job
OnceAttemptFails ==
    /\ tasks[OnceTask].pc = "request"
    /\ IF backoff_gives_up(onceHist.tries)
       THEN /\ tasks' = [tasks EXCEPT ![OnceTask] = Abort(tasks[OnceTask])]
            /\ requesting' = Release(requesting)
            /\ onceHist' = [onceHist EXCEPT !.phase = "raised", !.err = "rate_limit",
                                            !.at = now]
       ELSE /\ onceHist' = [onceHist EXCEPT !.tries = @ + 1]
            /\ UNCHANGED <<tasks, requesting>>
    /\ UNCHANGED <<schedVars, cacheVars, jobHist>>

\* an attempt of _request raises any other exception: it leaves the lock and
\* process_job at once
OnceOtherError ==
    /\ tasks[OnceTask].pc = "request"
    /\ tasks' = [tasks EXCEPT ![OnceTask] = Abort(tasks[OnceTask])]
    /\ requesting' = Release(requesting)
    /\ onceHist' = [onceHist EXCEPT !.phase = "raised", !.err = "other", !.at = now]
    /\ UNCHANGED <<schedVars, cacheVars, jobHist>>

\* process_job: await self.dump()
OnceDump ==
    /\ tasks[OnceTask].pc = "dump"
    /\ LET rt == tasks[OnceTask].rt
       IN  cacheFile' = [cacheFile EXCEPT ![rt] = dump(cache[rt], cacheFile[rt], dry_run)]
    /\ tasks' = [tasks EXCEPT ![OnceTask].pc = "finish"]
    /\ onceHist' = [onceHist EXCEPT !.writes = IF dry_run THEN @ ELSE @ + 1]
    /\ UNCHANGED <<schedVars, cache, addLog, requesting, jobHist>>

\* process_job: await self.scheduler.finished_requesting(...), and its return
OnceFinish ==
    /\ tasks[OnceTask].pc = "finish"
    /\ LET tk == tasks[OnceTask]
       IN  IF IsJustAdded(tk.rt)
           THEN /\ JustAddedFinished(tk.rt, tk.updatable)
                /\ tasks' = [tasks EXCEPT ![OnceTask] = [tk EXCEPT !.pc = "done"]]
                /\ onceHist' = [onceHist EXCEPT !.phase = "done", !.at = now,
                                    !.state_writes = IF dry_run THEN @ ELSE @ + 1]
           ELSE IF HasKey(state[tk.rt], -1)
                THEN /\ AllPagesFinished(tk.rt)
                     /\ tasks' = [tasks EXCEPT ![OnceTask] = [tk EXCEPT !.pc = "done"]]
                     /\ onceHist' = [onceHist EXCEPT !.phase = "done", !.at = now,
                                         !.state_writes = IF dry_run THEN @ ELSE @ + 1]
                ELSE /\ UNCHANGED schedVars
                     /\ tasks' = [tasks EXCEPT ![OnceTask] = Abort(tk)]
                     /\ onceHist' = [onceHist EXCEPT !.phase = "raised", !.err = "key",
                                                     !.at = now]
    /\ UNCHANGED <<schedHist, cacheVars, requesting, jobHist>>

\* the clock advances: between two Jobs, and while a Job writes its cache
OnceTick ==
    /\ OnceFree \/ tasks[OnceTask].pc = "dump"
    /\ now < OnceStart + MaxOnceTicks
    /\ now' = now + 1
    /\ UNCHANGED <<dry_run, ranges, state, stateFile, schedHist>>

OnceStep ==
    \/ \E rt \in OnceTypes :
          OncePrepare(rt) /\ UNCHANGED <<rangeVars, timerVars, viewVars, ctorVars>>
    \/ \E l \in LETTER_ENDPOINTS \cup {""} :
          OnceProcess(l) /\ UNCHANGED <<rangeVars, timerVars, viewVars, ctorVars>>
    \/ \E rt \in OnceTypes, pages \in OnceDirectPages, l \in LETTER_ENDPOINTS \cup {""} :
          OnceDirect(rt, pages, l) /\ UNCHANGED <<rangeVars, timerVars, viewVars, ctorVars>>
    \/ \E ids \in OnceResults :
          OnceResponse(ids) /\ UNCHANGED <<rangeVars, timerVars, viewVars, ctorVars>>
    \/ \E status \in OnceStatuses, ids \in OnceResults, l \in LETTER_ENDPOINTS \cup {""} :
          OnceLetterResponse(status, ids, l)
             /\ UNCHANGED <<rangeVars, timerVars, viewVars, ctorVars>>
    \/ OnceAttemptFails /\ UNCHANGED <<rangeVars, timerVars, viewVars, ctorVars>>
    \/ OnceOtherError /\ UNCHANGED <<rangeVars, timerVars, viewVars, ctorVars>>
    \/ OnceDump /\ UNCHANGED <<rangeVars, timerVars, viewVars, ctorVars>>
    \/ OnceFinish /\ UNCHANGED <<rangeVars, timerVars, viewVars, ctorVars>>
    \/ OnceTick
          /\ UNCHANGED <<onceVars, rangeVars, cacheVars, jobVars, timerVars, viewVars, ctorVars>>

SpecOnce == OnceInit /\ [][OnceStep]_vars

\* the steps of process_job once it has the lock: the outcome of the request
\* in flight (a response, a failed attempt, another error), the write of the
\* cache file and the report to the scheduler
OnceJobStep ==
    /\ onceHist.phase = "running"
    /\ \/ \E ids \in OnceResults : OnceResponse(ids)
       \/ \E status \in OnceStatuses, ids \in OnceResults, l \in LETTER_ENDPOINTS \cup {""} :
             OnceLetterResponse(status, ids, l)
       \/ OnceAttemptFails
       \/ OnceOtherError
       \/ OnceDump
       \/ OnceFinish
    /\ UNCHANGED <<rangeVars, timerVars, viewVars, ctorVars>>

\* SpecOnce where every request gets its outcome and the event loop goes on
\* running the coroutine
SpecOnceFair == SpecOnce /\ WF_vars(OnceJobStep)

(***************************************************************************)
(* SpecDry: a run of the program, with or without --dry-run, that finds    *)
(* the files of an earlier run: it deletes files, processes one Job, and   *)
(* is asked for the unapproved ids.                                        *)
(***************************************************************************)
\* a slip in delete: the file is removed in a dry run too
Mut_delete_ignores_dry(file, dry) == IF file.exists THEN AbsentFile ELSE file

\* AbstractCache.delete: the cache file after the call
delete(file, dry) ==
    IF file.exists
    THEN IF ~dry THEN AbsentFile ELSE file
    ELSE file

\* AbstractScheduler.delete: the state file after the call
scheduler_delete(file, dry) ==
    IF file.exists
    THEN IF ~dry THEN AbsentFile ELSE file
    ELSE file

\* the cache file of request type rt that the run finds: it lists id 2 twice,
\* as no dump writes it
DryCacheFile(rt) ==
    [ exists |-> TRUE, valid |-> TRUE,
      data |-> IF IsJustAdded(rt) THEN [sfw |-> <<2, 2>>, nsfw |-> << >>]
               ELSE [ids |-> <<2, 2>>] ]

\* the state file that the run finds: next to the stamp of the all-pages
\* budget it holds a budget that is configured no longer
DryStateFile ==
    [ exists |-> TRUE, valid |-> TRUE,
      data |-> dump_dictionary(<< [pages |-> -1, every_x_seconds |-> 3, prev |-> 1],
                                  [pages |-> 5, every_x_seconds |-> 1, prev |-> 1] >>) ]

\* the relation-id page
DryRemote == [tables |-> 2, anime |-> <<2, 1>>, manga |-> <<1, 1>>]

DryInit ==
    /\ RangeIdle
    /\ JobIdle
    /\ TimerIdle
    /\ OnceIdle
    /\ CtorIdle
    /\ dry_run \in BOOLEAN
    /\ now = OnceStart
    /\ ranges = OnceRanges
    /\ stateFile = [rt \in RequestTypes |-> DryStateFile]
    /\ state = [rt \in RequestTypes |-> read_state(ranges[rt], stateFile[rt])]
    /\ schedHist = NoSchedCall
    /\ cacheFile = [rt \in RequestTypes |-> DryCacheFile(rt)]
    /\ cache = [rt \in RequestTypes |-> read(cacheFile[rt], rt)]
    /\ addLog = << >>
    /\ view = NewUnapproved
    /\ remote = DryRemote
    /\ viewHist = NoViewCaller

\* run: await c.delete() for the cacher of request type rt
DryDeleteCache(rt) ==
    /\ tasks[OnceTask].pc = "idle"
    /\ cacheFile' = [cacheFile EXCEPT ![rt] = delete(cacheFile[rt], dry_run)]
    /\ addLog' = Remember(addLog, [rt |-> rt, op |-> "delete"])
    /\ UNCHANGED <<cache, schedVars>>

\* run: await s.delete() for the scheduler of request type rt
DryDeleteState(rt) ==
    /\ tasks[OnceTask].pc = "idle"
    /\ stateFile' = [stateFile EXCEPT ![rt] = scheduler_delete(stateFile[rt], dry_run)]
    /\ addLog' = Remember(addLog, [rt |-> rt, op |-> "scheduler_delete"])
    /\ UNCHANGED <<dry_run, now, ranges, state, schedHist, cache, cacheFile>>

DryStep ==
    \/ \E rt \in OnceTypes :
          DryDeleteCache(rt)
             /\ UNCHANGED <<onceVars, rangeVars, jobVars, timerVars, viewVars, ctorVars>>
    \/ \E rt \in OnceTypes :
          DryDeleteState(rt)
             /\ UNCHANGED <<onceVars, rangeVars, jobVars, timerVars, viewVars, ctorVars>>
    \/ \E rt \in OnceTypes, pages \in JobPages :
          Call(OnceTask, rt, pages)
             /\ UNCHANGED <<onceVars, rangeVars, timerVars, viewVars, ctorVars>>
    \/ \E l \in LETTER_ENDPOINTS \cup {""} :
          Begin(OnceTask, l) /\ UNCHANGED <<onceVars, rangeVars, timerVars, viewVars, ctorVars>>
    \/ \E ids \in OnceResults :
          JustAddedResponse(OnceTask, ids)
             /\ UNCHANGED <<onceVars, rangeVars, timerVars, viewVars, ctorVars>>
    \/ \E ids \in OnceResults, l \in LETTER_ENDPOINTS \cup {""} :
          AllPagesResponse(OnceTask, ids, l)
             /\ UNCHANGED <<onceVars, rangeVars, timerVars, viewVars, ctorVars>>
    \/ RequestFails(OnceTask) /\ UNCHANGED <<onceVars, rangeVars, timerVars, viewVars, ctorVars>>
    \/ Dump(OnceTask) /\ UNCHANGED <<onceVars, rangeVars, timerVars, viewVars, ctorVars>>
    \/ Finish(OnceTask) /\ UNCHANGED <<onceVars, rangeVars, timerVars, viewVars, ctorVars>>
    \/ \E kind \in {"anime", "manga"} :
          ViewCall(kind)
             /\ UNCHANGED <<onceVars, rangeVars, schedVars, cacheFile, addLog, jobVars,
                            timerVars, ctorVars>>
    \/ ViewResponse
          /\ UNCHANGED <<onceVars, rangeVars, schedVars, cacheFile, addLog, jobVars, timerVars, ctorVars>>
    \/ ViewRequestFails
          /\ UNCHANGED <<onceVars, rangeVars, schedVars, cacheFile, addLog, jobVars, timerVars, ctorVars>>
    \/ ViewParse
          /\ UNCHANGED <<onceVars, rangeVars, schedVars, cacheFile, addLog, jobVars, timerVars, ctorVars>>

SpecDry == DryInit /\ [][DryStep]_vars

(***************************************************************************)
(* SpecDriver: run.once, called once: it consults the four schedulers and  *)
(* hands each Job to the cacher of its request type.                       *)
(***************************************************************************)
\* the keys of `schedules`, in the order the dict is written in
ScheduleOrder == <<ANIME, MANGA, CHARACTER, PERSON>>

\* the positional parameters of process_job after self: (self, job)
ProcessJobParams == 1

\* the positional arguments of the call in once: (job, unapproved_instance)
OnceCallArgs == 2

\* a call of a method with `args` positional arguments where it has `params`
\* positional parameters: the TypeError raised when they cannot be bound
call_raises(args, params) == IF args = params THEN "none" ELSE "TypeError"

\* the state files the schedulers find: none (every budget is due), or one in
\* which every budget was checked in the second the clock starts in
DriverFiles(rt) ==
    LET st == read_state(OnceRanges[rt], AbsentFile)
    IN  { AbsentFile,
          dump_state([i \in DOMAIN st |-> [st[i] EXCEPT !.prev = IntTime(OnceStart)]],
                     AbsentFile, FALSE) }

DriverInit ==
    /\ RangeIdle
    /\ CacheIdle
    /\ JobIdle
    /\ TimerIdle
    /\ OnceIdle
    /\ ViewIdle
    /\ made = NoJob
    /\ shut = NoShutdown
    /\ driver = NoDriver
    /\ dry_run \in BOOLEAN
    /\ now = OnceStart
    /\ ranges = OnceRanges
    /\ state = [rt \in RequestTypes |-> << >>]
    /\ stateFile \in [RequestTypes -> UNION {DriverFiles(rt) : rt \in RequestTypes}]
    /\ \A rt \in RequestTypes : stateFile[rt] \in DriverFiles(rt)
    /\ schedHist = NoSchedCall

\* once() is called
DriverOnce ==
    /\ driver.pc = "idle"
    /\ driver' = [driver EXCEPT !.pc = "prepare", !.i = 1]
    /\ UNCHANGED schedVars

\* once: `job = await schedule.prepare_request()` for the next scheduler and,
\* for a Job, the call `cachers[job.request_type].process_job(job,
\* unapproved_instance)`, which raises when its arguments cannot be bound;
\* with no Job the loop goes on to the next scheduler, and after the last
\* once returns
DriverPrepare ==
    /\ driver.pc = "prepare"
    /\ LET rt == ScheduleOrder[driver.i]
           st == read_state(ranges[rt], stateFile[rt])
           p == IF IsJustAdded(rt) THEN prepare_request_pages(st, now)
                ELSE all_pages_prepare_request(st, now)
           err == call_raises(OnceCallArgs, ProcessJobParams)
           d1 == [driver EXCEPT !.consulted = Append(@, rt)]
       IN  /\ state' = [state EXCEPT ![rt] = st]
           /\ driver' =
                IF p = 0
                THEN IF driver.i = Len(ScheduleOrder)
                     THEN [d1 EXCEPT !.pc = "returned"]
                     ELSE [d1 EXCEPT !.i = @ + 1]
                ELSE LET d2 == [d1 EXCEPT !.jobs = Append(@, [rt |-> rt, pages |-> p])]
                     IN  IF err # "none"
                         THEN [d2 EXCEPT !.pc = "raised", !.raised = err]
                         ELSE [d2 EXCEPT !.pc = "process"]
    /\ UNCHANGED <<dry_run, now, ranges, stateFile, schedHist>>

\* the clock advances while once awaits
DriverTick ==
    /\ driver.pc = "prepare"
    /\ now < OnceStart + MaxOnceTicks
    /\ now' = now + 1
    /\ UNCHANGED <<driver, dry_run, ranges, state, stateFile, schedHist>>

DriverStep ==
    \/ DriverOnce
          /\ UNCHANGED <<made, shut, onceVars, rangeVars, cacheVars, jobVars, timerVars, viewVars>>
    \/ DriverPrepare
          /\ UNCHANGED <<made, shut, onceVars, rangeVars, cacheVars, jobVars, timerVars, viewVars>>
    \/ DriverTick
          /\ UNCHANGED <<made, shut, onceVars, rangeVars, cacheVars, jobVars, timerVars, viewVars>>

SpecDriver == DriverInit /\ [][DriverStep]_vars

(***************************************************************************)
(* SpecShutdown: graceful_shutdown on one termination request, in an event *)
(* loop that runs the decay task of the Unapproved object (if there is     *)
(* one) and NumOthers other tasks.  A task is "pending", "cancelling"      *)
(* (cancel() was called and CancelledError is to be thrown into it),       *)
(* "cancelled", "failed" (ended by another exception) or "done".           *)
(***************************************************************************)
\* the tasks of the loop next to the decay task and graceful_shutdown
Others == 1 .. NumOthers

\* the interpreters the program runs on: asyncio.CancelledError is an
\* Exception before 3.8 and a BaseException from 3.8 on; asyncio.gather
\* accepts `loop=` before 3.10
PyVersions == {"3.7", "3.8", "3.10"}

Finished(status) == status \in {"cancelled", "failed", "done"}

\* task.cancel(): a task that is over is left as it is
cancel(status) == IF Finished(status) THEN status ELSE "cancelling"

\* `await task` of a task that is over: the exception raised
await_task(status) ==
    CASE status = "cancelled" -> "CancelledError"
      [] status = "failed" -> "Exception"
      [] OTHER -> "none"

\* a slip in graceful_shutdown: the await is not wrapped in suppress
Mut_suppress_nothing(exc) == exc

\* `with suppress(asyncio.CancelledError)`: the exception that leaves the block
suppress(exc) == IF exc = "CancelledError" THEN "none" ELSE exc

\* handle_gather for one result of gather(..., return_exceptions=True): the
\* result of a cancelled task is a CancelledError, which passes
\* `isinstance(result, Exception)` only before 3.8
handle_gather(status, py) ==
    CASE status = "cancelled" -> IF py = "3.7" THEN "ignored" ELSE "skipped"
      [] status = "failed" -> "logged"
      [] OTHER -> "skipped"

ShutdownInit ==
    /\ RangeIdle
    /\ SchedIdle
    /\ CacheIdle
    /\ JobIdle
    /\ TimerIdle
    /\ OnceIdle
    /\ ViewIdle
    /\ made = NoJob
    /\ driver = NoDriver
    /\ \E py \in PyVersions, instance \in BOOLEAN :
          shut = [NoShutdown EXCEPT
                    !.pc = "running", !.py = py, !.instance = instance,
                    !.decay = IF instance THEN "pending" ELSE "none",
                    !.others = [i \in Others |-> "pending"],
                    !.asked = [i \in Others |-> FALSE]]

\* another task goes on: it ends by itself, or, with a cancellation thrown
\* into it, it ends cancelled, or catches it and returns or raises
ShutTaskRuns(i, end) ==
    /\ shut.pc # "none" /\ ~shut.stopped
    /\ \/ shut.others[i] = "pending" /\ end \in {"done", "failed"}
       \/ shut.others[i] = "cancelling"
    /\ shut' = [shut EXCEPT !.others[i] = end]

\* decay_loop goes on: an exception ends it, or, with a cancellation thrown
\* into it (it catches nothing), it ends cancelled
ShutDecayRuns ==
    /\ ~shut.stopped
    /\ shut.decay \in {"pending", "cancelling"}
    /\ shut' = [shut EXCEPT !.decay = IF @ = "pending" THEN "failed" ELSE "cancelled"]

\* graceful_shutdown is started and runs to `await decay_task` (with an
\* Unapproved object) or to the list of the pending tasks
ShutBegin ==
    /\ shut.pc = "running"
    /\ shut' = IF shut.instance
               THEN [shut EXCEPT !.pc = "await_decay", !.decay = cancel(@)]
               ELSE [shut EXCEPT !.pc = "cancel_pending"]

\* the decay task is over and `await unapproved_instance.decay_task` ends
ShutDecayAwaited ==
    /\ shut.pc = "await_decay"
    /\ Finished(shut.decay)
    /\ LET exc == suppress(await_task(shut.decay))
       IN  shut' = IF exc = "none" THEN [shut EXCEPT !.pc = "cancel_pending"]
                   ELSE [shut EXCEPT !.pc = "raised", !.raised = exc]

\* the tasks that are not over are cancelled and gathered; asyncio.gather
\* raises TypeError for `loop=` where it is not accepted
ShutCancelPending ==
    /\ shut.pc = "cancel_pending"
    /\ LET pending == {i \in Others : ~Finished(shut.others[i])}
           s1 == [shut EXCEPT
                    !.others = [i \in Others |-> IF i \in pending THEN cancel(@[i]) ELSE @[i]],
                    !.asked = [i \in Others |-> i \in pending]]
       IN  shut' = IF shut.py = "3.10"
                   THEN [s1 EXCEPT !.pc = "raised", !.raised = "TypeError"]
                   ELSE [s1 EXCEPT !.pc = "gather"]

\* every gathered task is over: gather returns their results, handle_gather
\* goes through them, and the loop is stopped
ShutGathered ==
    /\ shut.pc = "gather"
    /\ \A i \in Others : shut.asked[i] => Finished(shut.others[i])
    /\ shut' = [shut EXCEPT
                  !.pc = "stopped", !.stopped = TRUE,
                  !.handled = [i \in Others |->
                                  IF shut.asked[i] THEN handle_gather(shut.others[i], shut.py)
                                  ELSE "none"]]

ShutdownStep ==
    \/ \E i \in Others, end \in {"cancelled", "failed", "done"} :
          ShutTaskRuns(i, end)
             /\ UNCHANGED <<made, driver, onceVars, rangeVars, schedVars, cacheVars, jobVars,
                            timerVars, viewVars>>
    \/ ShutDecayRuns
          /\ UNCHANGED <<made, driver, onceVars, rangeVars, schedVars, cacheVars, jobVars,
                         timerVars, viewVars>>
    \/ ShutBegin
          /\ UNCHANGED <<made, driver, onceVars, rangeVars, schedVars, cacheVars, jobVars,
                         timerVars, viewVars>>
    \/ ShutDecayAwaited
          /\ UNCHANGED <<made, driver, onceVars, rangeVars, schedVars, cacheVars, jobVars,
                         timerVars, viewVars>>
    \/ ShutCancelPending
          /\ UNCHANGED <<made, driver, onceVars, rangeVars, schedVars, cacheVars, jobVars,
                         timerVars, viewVars>>
    \/ ShutGathered
          /\ UNCHANGED <<made, driver, onceVars, rangeVars, schedVars, cacheVars, jobVars,
                         timerVars, viewVars>>

SpecShutdown == ShutdownInit /\ [][ShutdownStep]_vars

(***************************************************************************)
(* Claims about UpdatableRange (checked under SpecRange).                  *)
(***************************************************************************)
\* C5: the ceiling of an UpdatableRange never decreases: after every call of
\* found_entry_on_page, __next__ or toggle_off, check_till is at least what it
\* was before the call; with check_till = 5 and extend_by = 8,
\* found_entry_on_page(4) gives 12 and a later found_entry_on_page(2) leaves 12.
C5_CheckTillNeverDecreases ==
    LET last == rngHist.last
    IN  /\ rng.check_till >= last.pre.check_till
        /\ rng.check_till >= rngHist.init_till
        /\ (last.op = "found" /\ last.pre.extend_by = 8 /\ last.pre.check_till = 5
              /\ last.n = 4) => rng.check_till = 12
        /\ (last.op = "found" /\ last.pre.extend_by = 8 /\ last.pre.check_till = 12
              /\ last.n = 2) => rng.check_till = 12

\* C5 witness: a range built with check_till = 5 was extended to 12 and then
\* told of an entry on the earlier page 2
C5_Witness ==
    /\ rngHist.init_till = 5
    /\ rngHist.last.op = "found"
    /\ rngHist.last.n = 2
    /\ rngHist.last.pre.check_till = 12
    /\ rng.check_till = 12

\* C6: a range constructed with check_till = N >= 0 whose ceiling was never
\* extended produces exactly 1, 2, ..., N in this order, one more per call, and
\* raises StopIteration on the call made after the N-th value (at once if N = 0).
C6_FiniteRangeYieldsOneToN ==
    LET last == rngHist.last
        N == rngHist.init_till
    IN  (N >= 0 /\ rng.check_till = N) =>
          /\ rngHist.produced = [i \in 1 .. Len(rngHist.produced) |-> i]
          /\ Len(rngHist.produced) <= N
          /\ rng.current_page = Len(rngHist.produced)
          /\ last.op = "next" =>
                /\ last.stop <=> (last.pre.current_page = N)
                /\ ~last.stop => /\ last.value = last.pre.current_page + 1
                                 /\ rng.current_page = last.value

\* C6 witness: a range with check_till = 3 has produced 1, 2, 3 and its fourth
\* call has reported exhaustion
C6_Witness ==
    /\ rngHist.init_till = 3
    /\ rng.check_till = 3
    /\ rngHist.produced = <<1, 2, 3>>
    /\ rngHist.last.op = "next"
    /\ rngHist.last.stop

\* C7: a range constructed with check_till = -1 is infinite: found_entry_on_page
\* changes no field of it, and __next__ never raises StopIteration.
C7_InfiniteRange ==
    LET last == rngHist.last
    IN  rngHist.init_till = -1 =>
          /\ rng.infinite
          /\ rng.check_till = -1
          /\ last.op = "found" => rng = last.pre
          /\ last.op = "next" => /\ ~last.stop
                                 /\ last.value = last.pre.current_page + 1

\* C7 witness: an infinite range that was told of a new entry (and toggled off)
\* goes on producing pages
C7_Witness ==
    /\ rngHist.init_till = -1
    /\ rngHist.found_called
    /\ rngHist.toggled_off
    /\ rngHist.last.op = "next"
    /\ Len(rngHist.produced) >= 3

\* C8: on a toggleable range (check_till = -2), the __next__ call that directly
\* follows toggle_off() raises StopIteration, whatever current_page is and also
\* when found_entry_on_page was called before toggle_off.
C8_ToggleOffStopsNext ==
    (rngHist.init_till = -2 /\ rngHist.next_after_toggle) => rngHist.last.stop

(***************************************************************************)
(* Claims about the recent-feed scheduler (checked under SpecSched).       *)
(***************************************************************************)
\* the budgets of state st that are due at clock tick t
DueBudgets(st, t) == { st[i].pages : i \in { j \in 1 .. Len(st) : IsDue(st[j], t) } }

SetMax(S) == CHOOSE x \in S : \A y \in S : y <= x

\* C9: recent-feed prepare_request returns None when no budget is due, the
\* all-pages (-1) Job whenever the -1 budget is due, and otherwise a Job for the
\* largest positive budget among those due (due {8, 20}, not due {2}: 20).
C9_PrepareRequestSelection ==
    schedHist.op = "prepare" =>
        LET due == DueBudgets(state[schedHist.rt], schedHist.at)
        IN  /\ due = {} => schedHist.ret = 0
            /\ -1 \in due => schedHist.ret = -1
            /\ (due # {} /\ -1 \notin due) => schedHist.ret = SetMax(due)
            /\ (due = {8, 20} /\ 2 \in { e.pages : e \in
                   { state[schedHist.rt][i] : i \in 1 .. Len(state[schedHist.rt]) } })
                 => schedHist.ret = 20

\* C9 witness: budgets 8 and 20 are due, budget 2 is configured and not due, and
\* prepare_request has returned a Job
C9_Witness ==
    /\ schedHist.op = "prepare"
    /\ Len(state[ANIME]) = 3
    /\ \E i \in 1 .. 3 : state[ANIME][i].pages = 2
    /\ DueBudgets(state[ANIME], schedHist.at) = {8, 20}
    /\ schedHist.ret # 0

\* C10: recent-feed finished_requesting with a range that is not infinite sets
\* last-checked to the second of the call for every positive budget b with
\* current_page >= b (current_page 25 against {2, 8, 20}: all three) and leaves
\* it as it was for every budget b > current_page and for the -1 budget.
C10_FinishedStampsCoveredBudgets ==
    (schedHist.op = "finished" /\ ~schedHist.r_infinite) =>
        LET st == state[schedHist.rt]
            pre == schedHist.pre
            cur == schedHist.r_current_page
        IN  /\ Len(st) = Len(pre)
            /\ \A i \in 1 .. Len(st) :
                  /\ st[i].pages = pre[i].pages
                  /\ st[i].every_x_seconds = pre[i].every_x_seconds
                  /\ (pre[i].pages > 0 /\ cur >= pre[i].pages)
                        => st[i].prev = IntTime(schedHist.at)
                  /\ (pre[i].pages > cur \/ pre[i].pages = -1)
                        => st[i].prev = pre[i].prev

\* C10 witness: a range at current_page 25 was reported to a scheduler of the
\* budgets 2, 8 and 20, none of them stamped with the current second before
C10_Witness ==
    /\ schedHist.op = "finished"
    /\ ~schedHist.r_infinite
    /\ schedHist.r_current_page = 25
    /\ { schedHist.pre[i].pages : i \in 1 .. Len(schedHist.pre) } = {2, 8, 20}
    /\ \A i \in 1 .. Len(schedHist.pre) : schedHist.pre[i].prev # IntTime(schedHist.at)
    /\ \A i \in 1 .. Len(state[ANIME]) : state[ANIME][i].prev = IntTime(schedHist.at)

(***************************************************************************)
(* Claims about add (checked under SpecAdd).                               *)
(***************************************************************************)
\* the calls of add on the cacher of rt that came before call k of the log and
\* passed the same id
EarlierSame(rt, k) ==
    { j \in 1 .. k - 1 : addLog[j].rt = rt /\ addLog[j].item = addLog[k].item }

\* C2: on a recent-feed cache that starts as the default empty cache, add
\* returns True exactly on the first call with an id, whichever flag is passed,
\* and False on every later call with it; the cache holds exactly the ids
\* added, each in one set only.
C2_JustAddedDedup ==
    /\ \A k \in 1 .. Len(addLog) :
          addLog[k].rt = ANIME => (addLog[k].ret <=> EarlierSame(ANIME, k) = {})
    /\ \A id \in Ids :
          /\ Cardinality({ k \in 1 .. Len(addLog) :
                 addLog[k].rt = ANIME /\ addLog[k].item = id /\ addLog[k].ret }) <= 1
          /\ (\E k \in 1 .. Len(addLog) : addLog[k].rt = ANIME /\ addLog[k].item = id)
                <=> (id \in cache[ANIME].sfw \cup cache[ANIME].nsfw)
          /\ ~(id \in cache[ANIME].sfw /\ id \in cache[ANIME].nsfw)

\* C2 witness: an id was added as nsfw, then added again as sfw and refused,
\* with a second id added in between
C2_Witness ==
    \E i, j, k \in 1 .. Len(addLog) :
        /\ i < j /\ j < k
        /\ addLog[i].rt = ANIME /\ addLog[j].rt = ANIME /\ addLog[k].rt = ANIME
        /\ addLog[i].item = addLog[k].item
        /\ addLog[j].item # addLog[i].item
        /\ addLog[i].nsfw /\ ~addLog[k].nsfw
        /\ addLog[i].ret /\ addLog[j].ret /\ ~addLog[k].ret

\* C4: on a full-enumeration cache, add(id) returns True if and only if id was
\* not in the cache before the call, so it returns False on every repeat.
C4_AllPagesDedup ==
    \A k \in 1 .. Len(addLog) :
        addLog[k].rt = CHARACTER => (addLog[k].ret <=> EarlierSame(CHARACTER, k) = {})

(***************************************************************************)
(* Claims about process_job (checked under Spec).                          *)
(***************************************************************************)
\* coroutine t is inside `async with requesting` of its process_job
InRequestPhase(t) == tasks[t].pc \in {"locked", "request"}

\* C1: whatever the interleaving of process_job calls on the four cachers, at
\* most one call is inside its request phase at any instant, and that call is
\* the holder of the module-level lock `requesting`; every other started call
\* is waiting for the lock or has left it.
C1_MutualExclusion ==
    /\ \A t, u \in Tasks : InRequestPhase(t) /\ InRequestPhase(u) => t = u
    /\ \A t \in Tasks : InRequestPhase(t) => requesting.holder = t
    /\ \A t \in Tasks : tasks[t].pc = "waiting" =>
          \E i \in 1 .. Len(requesting.waiters) : requesting.waiters[i] = t

\* C1 witness: a recent-feed call is between two page requests while a
\* full-enumeration call waits for the lock
C1_Witness ==
    \E t, u \in Tasks :
        /\ tasks[t].pc = "request" /\ IsJustAdded(tasks[t].rt)
        /\ tasks[t].r.current_page > 1
        /\ tasks[u].pc = "waiting" /\ ~IsJustAdded(tasks[u].rt)
        /\ requesting.holder = t

\* C3: in every recent-feed cache that starts empty, whatever the process_job
\* runs did (the adult pass and then the safe pass, which may return the same
\* id), no id is in both the "sfw" and the "nsfw" set.
C3_ClassificationsDisjoint ==
    \A rt \in RequestTypes :
        IsJustAdded(rt) => cache[rt].sfw \cap cache[rt].nsfw = {}

\* C3 witness: the safe pass of a process_job has just returned an id that an
\* adult pass had cached, and the id is in the "nsfw" set only
C3_Witness ==
    /\ jobHist.ev = "known"
    /\ ~jobHist.nsfw
    /\ cache[jobHist.rt].nsfw # {}
    /\ cache[jobHist.rt].sfw \cap cache[jobHist.rt].nsfw = {}

(***************************************************************************)
(* Further claims about the schedulers (checked under SpecSched).          *)
(***************************************************************************)
\* finished_requesting has just returned from a call with an infinite range
AfterInfiniteFinished == schedHist.op = "finished" /\ schedHist.r_infinite

\* C11 as stated: finished_requesting with an infinite range stamps every
\* configured budget, -1 included, with now, so that immediately afterwards
\* no budget is due.
C11_InfiniteStampsAll_Original ==
    AfterInfiniteFinished =>
        /\ \A i \in 1 .. Len(state[ANIME]) : state[ANIME][i].prev = IntTime(now)
        /\ \A i \in 1 .. Len(state[ANIME]) : ~IsDue(state[ANIME][i], now)

\* C11 (amended): finished_requesting with an infinite range stamps every
\* configured budget, -1 included, with the whole second of now, so that
\* immediately afterwards no budget with a period of at least one second is
\* due, and (outside a dry run, the state having been read for the whole
\* configuration) a prepare_request that reads the state back from its file
\* returns None.
C11_InfiniteStampsAll ==
    AfterInfiniteFinished =>
        /\ Len(state[ANIME]) = Len(schedHist.pre)
        /\ \A i \in 1 .. Len(state[ANIME]) :
              /\ state[ANIME][i].prev = IntTime(now)
              /\ state[ANIME][i].pages = schedHist.pre[i].pages
              /\ state[ANIME][i].every_x_seconds >= 1 => ~IsDue(state[ANIME][i], now)
        /\ ( /\ ~dry_run
              /\ Len(schedHist.pre) = Len(ranges[ANIME])
              /\ \A i \in 1 .. Len(ranges[ANIME]) : ranges[ANIME][i].period >= 1 )
              => prepare_request_pages(read_state(ranges[ANIME], stateFile[ANIME]), now) = 0

\* C11 witness: an all-pages Job has finished in the middle of a second while
\* the -1 budget and a positive budget, each checked every second, were due
C11_Witness ==
    /\ AfterInfiniteFinished
    /\ ~dry_run
    /\ now % TicksPerSec # 0
    /\ \E i, j \in 1 .. Len(schedHist.pre) :
          /\ schedHist.pre[i].pages = -1 /\ schedHist.pre[j].pages > 0
          /\ schedHist.pre[i].every_x_seconds = 1
          /\ IsDue(schedHist.pre[i], now) /\ IsDue(schedHist.pre[j], now)
    /\ \A i \in 1 .. Len(state[ANIME]) : ~IsDue(state[ANIME][i], now)

\* the configured budgets of the recent-feed scheduler whose key the state
\* file does not hold (all of them when the file is absent or is not JSON)
MissingBudgets ==
    { i \in 1 .. Len(ranges[ANIME]) :
        ~ ( /\ stateFile[ANIME].exists
            /\ stateFile[ANIME].valid
            /\ PyStr(ranges[ANIME][i].pages) \in DOMAIN stateFile[ANIME].data ) }

\* C13: when the state file is absent, is not valid JSON or lacks a configured
\* budget key, read_state sets that budget's last_checked to 0, so that a
\* prepare_request made when the clock is past the period of such a budget
\* returns a Job.
C13_FirstRunCrawls ==
    (schedHist.op = "prepare" /\ schedHist.rt = ANIME) =>
        /\ Len(state[ANIME]) = Len(ranges[ANIME])
        /\ \A i \in MissingBudgets :
              /\ state[ANIME][i].pages = ranges[ANIME][i].pages
              /\ state[ANIME][i].prev = 0
        /\ (\E i \in MissingBudgets : ranges[ANIME][i].period * TicksPerSec < now)
              => schedHist.ret # 0

\* C13 witness: the state file holds every budget but the first, none of those
\* it holds is due, and prepare_request returns the Job of the first budget
C13_Witness ==
    /\ schedHist.op = "prepare" /\ schedHist.rt = ANIME
    /\ stateFile[ANIME].valid
    /\ MissingBudgets = {1}
    /\ Len(ranges[ANIME]) >= 2
    /\ ranges[ANIME][1].period = 1
    /\ \A i \in 2 .. Len(state[ANIME]) : ~IsDue(state[ANIME][i], now)
    /\ schedHist.ret = ranges[ANIME][1].pages

\* C14: with the configuration unchanged, the state that dump_state wrote (at
\* the end of finished_requesting, outside a dry run) is read back by
\* read_state with, for every budget key that was in memory, negative keys
\* included, exactly the every_x_seconds and prev that were in memory; the
\* file holds the keys as the decimal strings of the budgets.
C14_StateRoundTrip ==
    (schedHist.op = "finished" /\ schedHist.rt = ANIME /\ ~dry_run) =>
        LET back == read_state(ranges[ANIME], stateFile[ANIME])
        IN  /\ stateFile[ANIME].exists /\ stateFile[ANIME].valid
            /\ DOMAIN stateFile[ANIME].data =
                  { PyStr(state[ANIME][i].pages) : i \in 1 .. Len(state[ANIME]) }
            /\ \A i \in 1 .. Len(state[ANIME]) :
                  \E j \in 1 .. Len(back) :
                      /\ back[j].pages = state[ANIME][i].pages
                      /\ back[j].every_x_seconds = state[ANIME][i].every_x_seconds
                      /\ back[j].prev = state[ANIME][i].prev

\* C14 witness: a state with the key -1 stamped one second after the epoch and
\* a two-digit key left at another stamp was written and reads back
C14_Witness ==
    /\ schedHist.op = "finished" /\ schedHist.rt = ANIME /\ ~dry_run
    /\ \E i, j \in 1 .. Len(state[ANIME]) :
          /\ state[ANIME][i].pages = -1 /\ state[ANIME][i].prev = 1
          /\ state[ANIME][j].pages = 20 /\ state[ANIME][j].prev = 0
    /\ <<"-", "1">> \in DOMAIN stateFile[ANIME].data
    /\ read_state(ranges[ANIME], stateFile[ANIME]) = state[ANIME]

(***************************************************************************)
(* Claims about the full-enumeration scheduler (checked under              *)
(* SpecAllSched).                                                          *)
(***************************************************************************)
\* C12: prepare_request of a full-enumeration scheduler returns an all-pages
\* Job exactly when now - last_checked of the -1 budget is strictly more than
\* its period, and None otherwise; finished_requesting sets that last_checked
\* to (the whole second of) now and leaves the period alone; and once a
\* finished_requesting has been written to the state file (no dry run),
\* prepare_request returns None until more than the period has passed since
\* the stamp, and a Job after that.
C12_AllPagesTimer ==
    /\ (schedHist.op = "prepare" /\ schedHist.rt = CHARACTER) =>
          LET e == Entry(state[CHARACTER], -1)
          IN  /\ schedHist.ret \in {-1, 0}
              /\ schedHist.ret = -1 <=> now > (e.prev + e.every_x_seconds) * TicksPerSec
              /\ (finishedAt >= 0 /\ ~dry_run) =>
                    (schedHist.ret = 0 <=>
                        now <= (IntTime(finishedAt) + e.every_x_seconds) * TicksPerSec)
    /\ (schedHist.op = "finished" /\ schedHist.rt = CHARACTER) =>
          /\ Len(state[CHARACTER]) = Len(schedHist.pre)
          /\ \A i \in 1 .. Len(state[CHARACTER]) :
                /\ state[CHARACTER][i].pages = -1
                /\ state[CHARACTER][i].prev = IntTime(now)
                /\ state[CHARACTER][i].every_x_seconds = schedHist.pre[i].every_x_seconds

\* C12 witness: a finished_requesting in the middle of a second wrote its
\* stamp to the state file, the period of one second has passed since the
\* stamp and prepare_request returns a Job again
C12_Witness ==
    /\ schedHist.op = "prepare" /\ schedHist.rt = CHARACTER
    /\ schedHist.ret = -1
    /\ ~dry_run
    /\ finishedAt >= 1
    /\ stateFile[CHARACTER].valid
    /\ Entry(state[CHARACTER], -1).every_x_seconds = 1
    /\ Entry(state[CHARACTER], -1).prev = IntTime(finishedAt)

(***************************************************************************)
(* Claims about the cache files (checked under SpecFile).                  *)
(***************************************************************************)
\* the values of an array, and whether it is sorted ascending without repeats
Values(arr) == { arr[i] : i \in 1 .. Len(arr) }
Ascending(arr) == \A i \in 1 .. Len(arr) - 1 : arr[i] < arr[i + 1]

\* C15: outside a dry run, dump writes every classification as an array that
\* is sorted ascending without repeats and holds exactly the ids in memory,
\* and a read that follows the dump rebuilds, for every classification,
\* exactly the set that was in memory before the dump.
C15_CacheRoundTrip ==
    ~dry_run =>
        /\ \A k \in 1 .. Len(addLog) :
              addLog[k].op = "dump" =>
                  /\ addLog[k].file.exists /\ addLog[k].file.valid
                  /\ DOMAIN addLog[k].file.data = DOMAIN addLog[k].mem
                  /\ \A c \in DOMAIN addLog[k].mem :
                        /\ Ascending(addLog[k].file.data[c])
                        /\ Values(addLog[k].file.data[c]) = addLog[k].mem[c]
        /\ \A k \in 1 .. Len(addLog) - 1 :
              ( /\ addLog[k].op = "dump" /\ addLog[k + 1].op = "read"
                /\ addLog[k].rt = addLog[k + 1].rt )
                  => addLog[k + 1].mem = addLog[k].mem

\* C15 witness: a recent-feed cache with two safe ids was dumped as [1, 2] and
\* read back
C15_Witness ==
    /\ ~dry_run
    /\ Len(addLog) >= 2
    /\ addLog[Len(addLog) - 1].op = "dump" /\ addLog[Len(addLog)].op = "read"
    /\ addLog[Len(addLog) - 1].rt = ANIME /\ addLog[Len(addLog)].rt = ANIME
    /\ addLog[Len(addLog) - 1].mem = [sfw |-> {1, 2}, nsfw |-> {}]
    /\ addLog[Len(addLog) - 1].file.data = [sfw |-> <<1, 2>>, nsfw |-> << >>]
    /\ cache[ANIME] = [sfw |-> {1, 2}, nsfw |-> {}]

C17_EnumerationJobRejectsBudget ==
    (made.asked_type \in {CHARACTER, PERSON} /\ made.asked_pages # -1) => made.raised

(***************************************************************************)
(* Claims about the Unapproved object (checked under SpecView).            *)
(***************************************************************************)
\* the approved ids of the cacher a returned call looked at
ApprovedOf(call) ==
    LET c == call.approved[IF call.kind = "anime" THEN 1 ELSE 2]
    IN  c.sfw \cup c.nsfw

\* a call of anime() or manga() that returned a list
Returned(call) == call.kind \in {"anime", "manga"}

\* the last two calls are calls of the same function, the later one begun
\* less than DECAY_WAIT_TIME after the earlier one returned, and the two
\* cachers holding the same ids at both
TwoCallsWithinWait ==
    /\ Returned(viewHist.last)
    /\ viewHist.prev.kind = viewHist.last.kind
    /\ viewHist.last.started - viewHist.prev.at < DECAY_WAIT_TIME * TicksPerSec
    /\ viewHist.last.approved = viewHist.prev.approved

\* C18: two consecutive anime() calls (likewise manga()) made less than the
\* idle wait apart, with the caches unchanged in between, return identical
\* lists, and the second call makes no remote request: the page is requested
\* at most once for both.
C18_IdempotentWithinWait ==
    TwoCallsWithinWait =>
        /\ viewHist.last.result = viewHist.prev.result
        /\ ~viewHist.last.fetched

\* C18 witness: anime() requested the page and returned ids, the remote page
\* changed, a minute later anime() returned the same ids with no request
C18_Witness ==
    /\ TwoCallsWithinWait
    /\ viewHist.last.kind = "anime"
    /\ viewHist.prev.fetched
    /\ viewHist.prev.result # << >>
    /\ viewHist.last.started > viewHist.prev.at
    /\ remote # viewHist.table
    /\ viewHist.last.result = viewHist.prev.result

\* C19: once the data has been unused for longer than the idle wait and the
\* decay task has cleared it, the next anime() or manga() call (outside a dry
\* run) requests the page again and returns a list computed from the ids of
\* the page just requested.
C19_RefetchAfterDecay ==
    (~dry_run /\ Returned(viewHist.last) /\ viewHist.last.after_decay) =>
        /\ viewHist.last.fetched
        /\ viewHist.last.result =
              sorted(SetOf(viewHist.last.table) \ ApprovedOf(viewHist.last))

\* C20: anime() (manga()) returns (outside a dry run) exactly the ids of the
\* requested anime (manga) table that are in neither the sfw nor the nsfw set
\* of the cacher, ascending and without repeats, none of them approved.
C20_ResultIsTableMinusApproved ==
    (~dry_run /\ Returned(viewHist.last)) =>
        /\ Values(viewHist.last.result) =
              SetOf(viewHist.last.table) \ ApprovedOf(viewHist.last)
        /\ Ascending(viewHist.last.result)
        /\ Values(viewHist.last.result) \cap ApprovedOf(viewHist.last) = {}

(***************************************************************************)
(* Claims about one Job run by one caller (checked under SpecOnce).        *)
(***************************************************************************)
\* the caller's Job is a recent-feed Job of two pages whose SFW pass found,
\* on page 2, an id the cache did not hold
WideningCase ==
    /\ ~dry_run
    /\ onceHist.rt = ANIME
    /\ onceHist.pages = 2
    /\ onceHist.found2

\* C21: a recent-feed Job of two pages whose SFW pass finds a new id on page 2
\* has a ceiling of at least 2 + extend_by from then on, goes on requesting
\* while it is below its ceiling, and its pass ends only when the page just
\* requested was the ceiling or a page held no ids.
C21_AdaptiveWidening ==
    WideningCase =>
        /\ tasks[OnceTask].pc = "request" =>
              /\ tasks[OnceTask].pass = "sfw"
              /\ tasks[OnceTask].r.check_till >= 2 + DefaultExtendBy
              /\ tasks[OnceTask].r.current_page <= tasks[OnceTask].r.check_till
        /\ tasks[OnceTask].pc \in {"dump", "finish", "done"} =>
              /\ onceHist.sfw_end.till >= 2 + DefaultExtendBy
              /\ onceHist.sfw_end.cp >= 3
              /\ onceHist.sfw_end.empty \/ onceHist.sfw_end.cp = onceHist.sfw_end.till

\* the pass went up to the widened ceiling, no page being empty
C21_Witness ==
    /\ WideningCase
    /\ onceHist.phase = "done"
    /\ ~onceHist.sfw_end.empty
    /\ onceHist.sfw_end.cp = 2 + DefaultExtendBy
    /\ onceHist.sfw_end.till = 2 + DefaultExtendBy

(***************************************************************************)
(* Claims about the lock and the steps of process_job (checked under Spec).*)
(***************************************************************************)
\* some process_job was left by an exception
SomeRaised == \E t \in Tasks : tasks[t].pc = "raised"

\* C22: when a process_job was left by the exception of a request, it does
\* not hold the lock: the lock is free for the process_job that arrives next,
\* or its first waiter can take it, or a process_job that is still running
\* holds it; every waiting process_job is queued on the lock.
C22_GateReleasedOnError ==
    SomeRaised =>
        /\ \A t \in Tasks : tasks[t].pc = "raised" => requesting.holder # t
        /\ requesting.holder # 0 =>
              tasks[requesting.holder].pc \in {"locked", "request"}
        /\ \A t \in Tasks :
              tasks[t].pc = "waiting" =>
                  \E i \in 1 .. Len(requesting.waiters) : requesting.waiters[i] = t
        /\ requesting.holder = 0 =>
              \/ CanAcquire(requesting)
              \/ tasks[Head(requesting.waiters)].pc = "waiting"

\* the first process_job was left by the exception of a request (it wrote
\* nothing), and the second, which was started meanwhile, now requests
C22_Witness ==
    /\ ~dry_run
    /\ tasks[1].pc = "raised"
    /\ \A rt \in RequestTypes : ~cacheFile[rt].exists
    /\ tasks[2].pc = "request"
    /\ requesting = [holder |-> 2, waiters |-> << >>]

(***************************************************************************)
(* More claims about one Job run by one caller (checked under SpecOnce).   *)
(***************************************************************************)
\* the caller's Job was left by the exception of a request
FailedInRequest ==
    /\ onceHist.phase = "raised"
    /\ onceHist.err \in {"rate_limit", "other"}

\* what prepare_request of the scheduler of request type rt returns now
PrepareNow(rt) ==
    LET st == read_state(ranges[rt], stateFile[rt])
    IN  IF IsJustAdded(rt) THEN prepare_request_pages(st, now)
        ELSE all_pages_prepare_request(st, now)

\* C23: when process_job was left by the exception of a request, the cache
\* file, the state file and the last-checked stamps of its request type are
\* what they were when the Job began, nothing was written for the Job, and
\* prepare_request, if it returned the Job, returns the same Job again.
C23_FailedJobLeavesState ==
    FailedInRequest =>
        /\ cacheFile[onceHist.rt] = onceHist.pre.cacheFile
        /\ stateFile[onceHist.rt] = onceHist.pre.stateFile
        /\ state[onceHist.rt] = onceHist.pre.state
        /\ onceHist.writes = 0
        /\ onceHist.state_writes = 0
        /\ onceHist.from_prepare => PrepareNow(onceHist.rt) = onceHist.pages

\* a Job of two pages that prepare_request returned failed after it had put
\* ids into the cache in memory; a cache file existed before; time has passed
C23_Witness ==
    /\ FailedInRequest
    /\ onceHist.err = "rate_limit"
    /\ onceHist.from_prepare
    /\ onceHist.rt = ANIME
    /\ onceHist.pages = 2
    /\ onceHist.pre.cacheFile.exists
    /\ cache[ANIME] # read(cacheFile[ANIME], ANIME)
    /\ now > onceHist.at

(***************************************************************************)
(* Claims about a dry run (checked under SpecDry).                         *)
(***************************************************************************)
\* C24: in a dry run no process_job is ever at a request and no cache gains
\* or loses an id, every cache file and every state file stays the file the
\* run found (none is written, none is removed), the Unapproved object never
\* requests the page and never holds a response, and its id lists, once set,
\* are empty.
C24_DryRunAffectsNothing ==
    dry_run =>
        /\ \A t \in Tasks : tasks[t].pc # "request"
        /\ cache = [rt \in RequestTypes |-> read(DryCacheFile(rt), rt)]
        /\ cacheFile = [rt \in RequestTypes |-> DryCacheFile(rt)]
        /\ stateFile = [rt \in RequestTypes |-> DryStateFile]
        /\ viewHist.pc = "idle"
        /\ view._html_response = "none"
        /\ ~view._html_text.some
        /\ view._anime.some => view._anime.val = << >>
        /\ view._manga.some => view._manga.val = << >>

\* in a dry run the cache file and the state file of ANIME were deleted, a Job
\* for all pages was processed to its end (its scheduler stamped the budget in
\* memory), and anime() has returned
C24_Witness ==
    /\ dry_run
    /\ \E i, j \in 1 .. Len(addLog) :
          /\ addLog[i] = [rt |-> ANIME, op |-> "delete"]
          /\ addLog[j] = [rt |-> ANIME, op |-> "scheduler_delete"]
    /\ tasks[OnceTask].pc = "done"
    /\ state[ANIME] # read_state(ranges[ANIME], stateFile[ANIME])
    /\ viewHist.last.kind = "anime"
    /\ viewHist.last.result = << >>
    /\ is_parsed(view)

(***************************************************************************)
(* Claims about the passes, the retries and the steps of one Job (checked  *)
(* under SpecOnce).                                                        *)
(***************************************************************************)
\* C25: a recent-feed process_job is never at a request of a pass in which a
\* page has returned no ids, whatever the page count of the Job (positive,
\* -1 or -2) and the ceiling of the range.
C25_EmptyPageEndsPass ==
    (tasks[OnceTask].pc = "request" /\ IsJustAdded(tasks[OnceTask].rt)) =>
        tasks[OnceTask].pass # onceHist.empty_pass

\* the SFW pass of a Job with page count -2 ended on its third page, which was
\* empty, and the Job is over
C25_Witness ==
    /\ onceHist.phase = "done"
    /\ onceHist.rt = ANIME
    /\ onceHist.pages = -2
    /\ onceHist.empty_pass = "sfw"
    /\ onceHist.sfw_end.empty
    /\ onceHist.sfw_end.cp = 3

\* this step is the return of a request that was retried
RetriedRequestReturns ==
    /\ tasks[OnceTask].pc = "request"
    /\ onceHist.tries > 1
    /\ onceHist'.tries <= 1

\* the step is what the return of the request with some ids is when no attempt
\* has failed
AsWithoutError ==
    LET tk == tasks[OnceTask]
    IN  IF IsJustAdded(tk.rt)
        THEN \E ids \in OnceResults :
                /\ tasks'[OnceTask] = process_page(tk, cache[tk.rt], ids).task
                /\ cache'[tk.rt] = process_page(tk, cache[tk.rt], ids).cache
        ELSE \E ids \in OnceResults, l \in NextLetters(tk) :
                /\ tasks'[OnceTask] = AdvanceLetters(tk, l)
                /\ cache'[tk.rt] = AllPagesAddAll(cache[tk.rt], ids, 1)

\* C26: a request is attempted at most max_tries (10) times; the return of a
\* request that was retried takes the Job on exactly as the return of a request
\* whose first attempt succeeded; and when the rate-limit error has left
\* process_job, all 10 attempts were made and the Job is over.
C26_RetryCap ==
    /\ [](onceHist.tries <= max_tries)
    /\ []((onceHist.phase = "raised" /\ onceHist.err = "rate_limit") =>
             /\ onceHist.tries = max_tries
             /\ tasks[OnceTask].pc = "raised")
    /\ [][RetriedRequestReturns => AsWithoutError]_vars

\* the tenth attempt of a request failed after the Job had put ids into the
\* cache in memory
C26_Witness ==
    /\ onceHist.phase = "raised"
    /\ onceHist.err = "rate_limit"
    /\ onceHist.tries = max_tries
    /\ onceHist.rt = ANIME
    /\ cache[ANIME] # read(cacheFile[ANIME], ANIME)

\* C27: outside a dry run, a process_job writes the cache file at most once;
\* while it is at a request or has not yet reached its dump it has written
\* nothing and the file is the one from before the Job; when it has completed
\* it has written the file exactly once, and the file holds the cache as it
\* is after the last page or letter.
C27_SingleCommitPoint ==
    ~dry_run =>
        /\ onceHist.writes <= 1
        /\ tasks[OnceTask].pc \in {"request", "dump"} =>
              /\ onceHist.writes = 0
              /\ cacheFile[onceHist.rt] = onceHist.pre.cacheFile
        /\ onceHist.phase = "done" =>
              /\ onceHist.writes = 1
              /\ cacheFile[onceHist.rt] = dump(cache[onceHist.rt], AbsentFile, FALSE)

\* a Job of two pages that went on past its second page has completed and has
\* replaced the cache file that existed before
C27_Witness ==
    /\ ~dry_run
    /\ onceHist.phase = "done"
    /\ onceHist.rt = ANIME
    /\ onceHist.pages = 2
    /\ onceHist.sfw_end.cp >= 3
    /\ onceHist.pre.cacheFile.exists
    /\ cacheFile[ANIME] # onceHist.pre.cacheFile
    /\ onceHist.writes = 1

StepOrder(t) ==
    /\ (tasks'[t].pc = "request" /\ tasks[t].pc # "request") =>
          /\ tasks[t].pc = "locked"
          /\ requesting.holder = t
    /\ (tasks'[t].pc = "dump" /\ tasks[t].pc # "dump") =>
          /\ tasks[t].pc \in {"locked", "request"}
          /\ requesting.holder = t
          /\ requesting'.holder = 0
    /\ (tasks'[t].pc = "finish" /\ tasks[t].pc # "finish") =>
          /\ tasks[t].pc = "dump"
          /\ cacheFile'[tasks[t].rt] = dump(cache[tasks[t].rt], cacheFile[tasks[t].rt], dry_run)
    /\ (tasks'[t].pc = "done" /\ tasks[t].pc # "done") => tasks[t].pc = "finish"

JustCompleted ==
    /\ ~dry_run
    /\ onceHist.phase = "done"
    /\ onceHist.from_prepare
    /\ IsJustAdded(onceHist.rt)
    /\ now = onceHist.at

\* C29: when a recent-feed Job that prepare_request returned for budget B has
\* just completed (outside a dry run), the scheduler's stamp of budget B is
\* the second of the completion, and prepare_request, called at once, does
\* not return budget B again.
C29_TimersResetByCompletedJob ==
    JustCompleted =>
        /\ \A i \in 1 .. Len(state[onceHist.rt]) :
              state[onceHist.rt][i].pages = onceHist.pages =>
                  state[onceHist.rt][i].prev = IntTime(onceHist.at)
        /\ PrepareNow(onceHist.rt) # onceHist.pages

(***************************************************************************)
(* A claim about the idle wait of the Unapproved object (checked under     *)
(* SpecView).                                                              *)
(***************************************************************************)
\* the last call has returned a list and no call is under way
LastCallReturned == viewHist.pc = "idle" /\ Returned(viewHist.last)

\* C30: after anime() or manga() has returned, whether it requested the page
\* or found the data at hand, _requested_at is the time of its return until
\* the data decays; the decay task removes the data only when more than
\* DECAY_WAIT_TIME has passed since that call, so while no more than
\* DECAY_WAIT_TIME has passed the data and the stamp are still there.
C30_UsageDrivesTTL ==
    /\ (LastCallReturned /\ ~viewHist.decayed) =>
          view._requested_at = Some(viewHist.last.at)
    /\ (Returned(viewHist.last) /\ viewHist.decayed) =>
          now - viewHist.last.at > DECAY_WAIT_TIME * TicksPerSec
    /\ (LastCallReturned /\ now - viewHist.last.at <= DECAY_WAIT_TIME * TicksPerSec) =>
          /\ ~viewHist.decayed
          /\ view._requested_at.some
          /\ is_parsed(view)

\* the page was requested by a call at 0 s, a call at 60 s was answered from
\* the data at hand, and at 3660 s, more than DECAY_WAIT_TIME after the
\* request but not after the last call, the data has not decayed
C30_Witness ==
    /\ LastCallReturned
    /\ viewHist.prev.fetched
    /\ viewHist.prev.at = 0
    /\ ~viewHist.last.fetched
    /\ viewHist.last.at = DECAY_CHECK_TIME * TicksPerSec
    /\ viewHist.last.result # << >>
    /\ now = (DECAY_WAIT_TIME + DECAY_CHECK_TIME) * TicksPerSec
    /\ ~viewHist.decayed
    /\ view._requested_at = Some(viewHist.last.at)

(***************************************************************************)
(* More claims about the Unapproved object (checked under SpecView).       *)
(***************************************************************************)
\* this step is a step of anime(), of manga() or of the decay task
UnapprovedActs == view' # view \/ viewHist' # viewHist

\* C31: no step of anime(), manga(), decay_loop or decay_data changes the
\* sets of a cacher, a cache file, or the state or the state file of a
\* scheduler.
C31_ViewLeavesCachesAlone ==
    [][UnapprovedActs =>
          /\ cache' = cache
          /\ cacheFile' = cacheFile
          /\ state' = state
          /\ stateFile' = stateFile]_vars

\* both recent-feed cachers hold ids, a call has returned ids and, later, the
\* data has decayed
C31_Witness ==
    /\ viewHist.decayed
    /\ Returned(viewHist.last)
    /\ viewHist.last.result # << >>
    /\ cache[ANIME].sfw \cup cache[ANIME].nsfw # {}
    /\ cache[MANGA].sfw \cup cache[MANGA].nsfw # {}

(***************************************************************************)
(* Claims about the requests of one Job (checked under SpecOnce).          *)
(***************************************************************************)
\* the requests of the caller's full-enumeration Job are over
EnumerationOver ==
    /\ ~dry_run
    /\ ~IsJustAdded(onceHist.rt)
    /\ onceHist.phase \in {"running", "done"}
    /\ tasks[OnceTask].pc \in {"dump", "finish", "done"}

\* C32: when the requests of a full-enumeration process_job are over, every
\* letter endpoint was requested exactly once, in some order, and the ids of
\* the cacher are those from before the Job together with the ids of all the
\* pages, whatever the order; while the requests go on no letter has been
\* requested twice; a 404 on "." is a page without ids and not a failure.
C32_EnumerationComplete ==
    /\ (~IsJustAdded(onceHist.rt) /\ onceHist.phase = "running") =>
          Cardinality(SetOf(onceHist.asked)) = Len(onceHist.asked)
    /\ EnumerationOver =>
          /\ SetOf(onceHist.asked) = LETTER_ENDPOINTS
          /\ Len(onceHist.asked) = Cardinality(LETTER_ENDPOINTS)
          /\ cache[onceHist.rt].ids =
                onceHist.pre.cache.ids \cup onceHist.got
    /\ \A ids \in OnceResults :
          /\ ~letter_page(".", 404, ids).raised
          /\ letter_page(".", 404, ids).ids = << >>

\* a Job that requested "." last and got a 404 for it has completed with the
\* ids of the other pages
C32_Witness ==
    /\ EnumerationOver
    /\ onceHist.phase = "done"
    /\ onceHist.dot404
    /\ onceHist.asked[Len(onceHist.asked)] = "."
    /\ onceHist.got = {1, 2}
    /\ cache[CHARACTER].ids = {1, 2}

\* the caller's recent-feed Job is at the first request of a pass
FirstRequestOfPass ==
    /\ tasks[OnceTask].pc = "request"
    /\ IsJustAdded(tasks[OnceTask].rt)
    /\ Len(onceHist.asked) = 1

\* the range of a pass at its first request, for a Job of B pages
PassStartsSized(B, pass, r) ==
    /\ r.current_page = 1
    /\ B > 0 =>
          /\ ~r.infinite
          /\ pass = "sfw" => r.check_till = B
          /\ pass = "nsfw" => (3 * r.check_till >= B /\ 3 * (r.check_till - 1) < B)
    /\ B = -1 => r.infinite

\* the step starts the SFW pass only from the NSFW pass, which has requested
\* its last page (the ceiling of a finite range) or has had an empty page
SfwAfterNsfw ==
    (tasks'[OnceTask].pass = "sfw" /\ tasks[OnceTask].pass # "sfw") =>
        /\ tasks[OnceTask].pass = "nsfw"
        /\ \/ onceHist'.empty_pass = "nsfw"
           \/ /\ ~tasks[OnceTask].r.infinite
              /\ tasks[OnceTask].r.current_page >= tasks[OnceTask].r.check_till

\* C33: a recent-feed Job of B > 0 pages starts its NSFW pass with ceiling
\* ceil(B/3) and its SFW pass with ceiling B, whatever the NSFW pass found;
\* with B = -1 both passes are unbounded; the SFW pass starts only when the
\* NSFW pass is over, the NSFW pass never after the SFW pass; the range
\* handed to finished_requesting is that of the SFW pass.
C33_PassSizing ==
    /\ [](FirstRequestOfPass =>
             PassStartsSized(onceHist.pages, tasks[OnceTask].pass, tasks[OnceTask].r))
    /\ [](\A B \in 1 .. MaxPageArg :
             /\ 3 * NsfwPages(B) >= B
             /\ 3 * (NsfwPages(B) - 1) < B)
    /\ []((~dry_run /\ IsJustAdded(onceHist.rt) /\ tasks[OnceTask].pc \in {"dump", "finish"}) =>
             /\ tasks[OnceTask].updatable.current_page = Len(onceHist.asked)
             /\ tasks[OnceTask].updatable.check_till = onceHist.sfw_end.till)
    /\ [][SfwAfterNsfw /\ (tasks'[OnceTask].pass = "nsfw" => tasks[OnceTask].pass # "sfw")]_vars

\* the NSFW pass of a Job of two pages has put a new id into the cache (and so
\* has raised its own ceiling), and the SFW pass is at its first request with
\* ceiling 2
C33_Witness ==
    /\ FirstRequestOfPass
    /\ onceHist.pages = 2
    /\ tasks[OnceTask].pass = "sfw"
    /\ tasks[OnceTask].r.check_till = 2
    /\ cache[ANIME].nsfw # onceHist.pre.cache.nsfw

(***************************************************************************)
(* Claims about request strings (checked under SpecJob).                   *)
(***************************************************************************)
\* the collection kind a request character names
KindOfChar(c) ==
    CASE c = "a" -> ANIME
      [] c = "m" -> MANGA
      [] c = "c" -> CHARACTER
      [] c = "p" -> PERSON

\* C36: from_network_request_string maps the first character of the request
\* string to the collection kind of the same name (a -> ANIME = 1,
\* m -> MANGA = 2, c -> CHARACTER = 3, p -> PERSON = 4) and the rest to the
\* page count, so "a51" gives (1, 51) and "c-1" gives (3, -1); the four kinds
\* have four distinct identifiers.
C36_RequestStringNamesKind ==
    /\ (Len(made.request_str) > 0 /\ ~made.raised) =>
          /\ made.request_type = KindOfChar(made.request_str[1])
          /\ made.asked_pages = PyInt(RestChars(made.request_str))
    /\ made.request_str = <<"a", "5", "1">> =>
          (~made.raised /\ made.request_type = 1 /\ made.pages = 51)
    /\ made.request_str = <<"c", "-", "1">> =>
          (~made.raised /\ made.request_type = 3 /\ made.pages = -1)
    /\ \A i, j \in DOMAIN REQUEST_DESCRIPTION_CONVERTER :
          REQUEST_DESCRIPTION_CONVERTER[i].v = REQUEST_DESCRIPTION_CONVERTER[j].v => i = j

\* the caller's recent-feed Job has a request in flight
FeedRequestInFlight ==
    tasks[OnceTask].pc = "request" /\ IsJustAdded(tasks[OnceTask].rt)

\* the step is an attempt that failed and is retried
RetryStep ==
    /\ FeedRequestInFlight
    /\ onceHist'.tries = onceHist.tries + 1

\* the step ends the NSFW pass of the caller's Job
NsfwPassEnds ==
    /\ FeedRequestInFlight
    /\ tasks[OnceTask].pass = "nsfw"
    /\ tasks'[OnceTask].pass # "nsfw"
    /\ onceHist'.phase = "running"

\* C38: the pages a recent-feed pass has requested are 1, 2, ..., k in this
\* order, each once, k being the range's current_page; an attempt that is
\* retried leaves the page and current_page as they are; when the pass ends,
\* current_page is the number of pages it requested.
C38_PagesInOrder ==
    /\ [](FeedRequestInFlight =>
             /\ Len(onceHist.asked) = tasks[OnceTask].r.current_page
             /\ \A i \in DOMAIN onceHist.asked : onceHist.asked[i] = i)
    /\ []((~dry_run /\ IsJustAdded(onceHist.rt) /\ tasks[OnceTask].pc \in {"dump", "finish"}) =>
             onceHist.sfw_end.cp = Len(onceHist.asked))
    /\ [][(RetryStep => (tasks' = tasks /\ onceHist'.asked = onceHist.asked))
          /\ (NsfwPassEnds => tasks[OnceTask].r.current_page = Len(onceHist.asked))]_vars

\* the SFW pass requests page 3 at the second attempt, after pages 1 and 2
C38_Witness ==
    /\ FeedRequestInFlight
    /\ tasks[OnceTask].pass = "sfw"
    /\ onceHist.asked = <<1, 2, 3>>
    /\ onceHist.tries = 2

\* C39: on a feed whose pages past MaxOncePage are empty, and with every
\* request getting its outcome, a process_job that has begun reaches
\* completion or failure, in finite, infinite (-1) and toggleable (-2) mode
\* and whatever ceiling extensions occur; no pass requests a page past the
\* first empty one.
C39_PassTerminates ==
    /\ [](FeedRequestInFlight => tasks[OnceTask].r.current_page <= MaxOncePage + 1)
    /\ (onceHist.phase = "running") ~> (onceHist.phase \in {"done", "raised"})

\* a toggleable Job is complete after its SFW pass has requested every
\* non-empty page and the first empty one
C39_Witness ==
    /\ onceHist.phase = "done"
    /\ IsJustAdded(onceHist.rt)
    /\ onceHist.pages = -2
    /\ Len(onceHist.asked) = MaxOncePage + 1
    /\ onceHist.empty_pass = "sfw"

(***************************************************************************)
(* Claims about the requests of a whole run (checked under SpecDry).       *)
(***************************************************************************)
\* a process_job holds the lock and has a page or letter request in flight
JobRequestInFlight ==
    \E t \in Tasks : tasks[t].pc = "request" /\ requesting.holder = t

\* Unapproved._request has its request for the relation-id page in flight
ViewRequestInFlight == viewHist.pc = "request"

\* C37: at most one remote request is in flight at any instant: the fetch of
\* the relation-id page by the Unapproved object never overlaps a page or
\* letter request of a process_job that holds the lock.
C37_OneRequestInFlight == ~(JobRequestInFlight /\ ViewRequestInFlight)

(***************************************************************************)
(* Claims about a relation-id page without its two tables (SpecView).      *)
(***************************************************************************)
\* the Unapproved object holds the text of a page that _parse_page raises on
HoldsFailedPage == view._html_text.some /\ parse_raises(view)

\* the last call of the caller has raised
LastCallRaised == viewHist.pc = "idle" /\ viewHist.last.kind = "raised"

\* C40: when the page fetched does not hold exactly two tables, anime() and
\* manga() raise and leave the object without a snapshot (the id lists unset,
\* _requested_at still None), and a later call fetches the page again: it does
\* not parse the text of the failed attempt once more.
C40_ParseFailureCachesNothing ==
    /\ (viewHist.pc = "idle" /\ HoldsFailedPage) =>
          /\ viewHist.last.kind = "raised"
          /\ ~view._anime.some
          /\ ~view._manga.some
          /\ ~view._requested_at.some
    /\ (viewHist.pc = "parse" /\ HoldsFailedPage) => viewHist.fetched

(***************************************************************************)
(* Claims about run.once (checked under SpecDriver).                       *)
(***************************************************************************)
\* seq is the beginning of ScheduleOrder
InScheduleOrder(seq) ==
    /\ Len(seq) <= Len(ScheduleOrder)
    /\ \A k \in DOMAIN seq : seq[k] = ScheduleOrder[k]

\* C34: in every run of once() the schedulers are consulted in the order
\* anime, manga, character, person, and the Job a scheduler returns is
\* processed to completion before the next scheduler is consulted: when the
\* next prepare_request is called, and when once is over, every Job returned
\* so far was processed, and once is over only after the four schedulers.
C34_FixedOrderToCompletion ==
    /\ InScheduleOrder(driver.consulted)
    /\ driver.pc \in {"prepare", "returned", "raised"} =>
          driver.completed = [k \in DOMAIN driver.jobs |-> driver.jobs[k].rt]
    /\ driver.pc \in {"returned", "raised"} => driver.consulted = ScheduleOrder

(***************************************************************************)
(* Claims about graceful_shutdown (checked under SpecShutdown).            *)
(***************************************************************************)
\* graceful_shutdown has called cancel() on another task
CancelledOthers == \E i \in Others : shut.asked[i]

\* C35: graceful_shutdown cancels the decay task and waits until it is over
\* before it cancels any other pending task and before the loop is stopped;
\* the cancellation of a task, awaited or gathered, is not raised out of
\* graceful_shutdown.
C35_ShutdownOrder ==
    /\ (shut.instance /\ (CancelledOthers \/ shut.stopped
                            \/ shut.pc \in {"cancel_pending", "gather"})) =>
          shut.decay = "cancelled"
    /\ shut.stopped => \A i \in Others : Finished(shut.others[i])
    /\ shut.raised # "CancelledError"
    /\ \A i \in DOMAIN shut.handled : shut.handled[i] # "logged" \/ shut.others[i] = "failed"

\* the loop was stopped after the decay task and another task had ended
\* cancelled, and a third task had ended with an exception of its own
C35_Witness ==
    /\ shut.stopped
    /\ shut.instance
    /\ shut.decay = "cancelled"
    /\ shut.raised = "none"
    /\ \E i, j \in Others :
          /\ shut.asked[i] /\ shut.others[i] = "cancelled"
          /\ shut.asked[j] /\ shut.others[j] = "failed" /\ shut.handled[j] = "logged"

====
